---- MODULE Spec2Model ----
(***************************************************************************)
(* Blue-green deployment orchestrator of                                   *)
(* src/internal/command/deploy/strategy_bluegreen.go.                      *)
(*                                                                         *)
(* One run of the model is one blueGreen value: BlueGreenStrategy has      *)
(* built it (Init), Deploy walks through its phases, the per-machine       *)
(* goroutines of the three wait phases run beside it, the Ctrl+C hook may  *)
(* close the abort channel, and Rollback follows a Deploy that returned an *)
(* error.  The Fleet API (flaps) is the environment: every call may        *)
(* succeed or fail.                                                        *)
(***************************************************************************)
EXTENDS Integers, Sequences, FiniteSets, TLC

\* Largest number of blue entries handed to BlueGreenStrategy.
MaxBlue == 2

\* Largest number of Fleet operations that fail in one run, by an error or by
\* running out of time (a retried operation counts once).
MaxFaults == 1

(***************************************************************************)
(* Error values.  A Go error is modelled by its chain of messages,         *)
(* outermost first; nil is the empty chain.                                *)
(***************************************************************************)
ErrAborted == "deployment aborted by user"
ErrWaitTimeout == "wait timeout"
ErrCreateGreenMachine == "failed to create green machines"
ErrWaitForStartedState == "could not get all green machines into started state"
ErrWaitForHealthy == "could not get all green machines to be healthy"
ErrMarkReadyForTraffic == "failed to mark green machines as ready"
ErrCordonBlueMachines == "failed to cordon blue machines"
ErrStopBlueMachines == "failed to stop blue machines"
ErrWaitForStoppedState == "could not get all blue machines into stopped state"
ErrDestroyBlueMachines == "failed to destroy previous deployment"
ErrValidationError == "app not in valid state for bluegreen deployments"
ErrOrgLimit == "app can't undergo bluegreen deployment due to org limits"

\* An error that comes back from the Fleet API or the platform API, the expiry
\* of a goroutine's own deadline included: Deploy treats them all alike.
FleetError == "fleet error"
\* The error of strconv.Atoi.
SyntaxError == "invalid syntax"

nil == <<>>
NewError(msg) == <<msg>>
\* errors.Wrap(err, msg): "msg: err".
Wrap(err, msg) == <<msg>> \o err
\* strings.Contains(err.Error(), msg) for the messages above.
Contains(err, msg) == \E i \in 1..Len(err) : err[i] = msg

(***************************************************************************)
(* Generation tags are strings; a string is a sequence of characters.      *)
(***************************************************************************)
Digits == <<"0", "1", "2", "3", "4", "5", "6", "7", "8", "9">>
IsDigit(c) == \E d \in 1..10 : Digits[d] = c
DigitVal(c) == (CHOOSE d \in 1..10 : Digits[d] = c) - 1

RECURSIVE ParseDigits(_, _)
ParseDigits(s, acc) ==
    IF s = <<>> THEN acc
    ELSE ParseDigits(Tail(s), acc * 10 + DigitVal(Head(s)))

\* strconv.Atoi: an optional sign, then one or more decimal digits.
Atoi(s) ==
    LET signed == s # <<>> /\ Head(s) \in {"+", "-"}
        body == IF signed THEN Tail(s) ELSE s
    IN  IF body = <<>> \/ \E i \in 1..Len(body) : ~IsDigit(body[i])
        THEN [ok |-> FALSE, num |-> 0]
        ELSE [ok |-> TRUE,
              num |-> IF signed /\ Head(s) = "-"
                      THEN 0 - ParseDigits(body, 0)
                      ELSE ParseDigits(body, 0)]

RECURSIVE SprintNat(_)
SprintNat(n) ==
    IF n < 10 THEN <<Digits[n + 1]>>
    ELSE SprintNat(n \div 10) \o <<Digits[(n % 10) + 1]>>

\* fmt.Sprint of an int.
Sprint(n) == IF n < 0 THEN <<"-">> \o SprintNat(0 - n) ELSE SprintNat(n)

\* bg.timestamp: fmt.Sprintf("%d", time.Now().Unix()) at construction.
timestamp == <<"3">>

\* The tags blue machines may carry when the deployment starts: none, or the
\* timestamp of an earlier deployment.
BGTagInputs == {<<>>, <<"1">>}

\* Service checks a launch spec may carry, by check type.
ServiceCheckInputs == {{}, {"tcp"}}

BlueId(k) == <<"blue", k>>
GreenId(k) == <<"green", k>>
MachineIds == {BlueId(k) : k \in 1..MaxBlue} \cup {GreenId(k) : k \in 1..MaxBlue}

VARIABLES
    pc,                      \* where Deploy / Rollback stands
    idx,                     \* loop position inside the current phase
    aborted,                 \* bg.aborted is closed
    abortedAt,               \* where Deploy stood when bg.aborted was closed
    ticker,                  \* bg.timeout has elapsed in the current wait phase
    faults,                  \* Fleet failures so far
    blueMachines,            \* bg.blueMachines
    greenMachines,           \* bg.greenMachines
    localGreens,             \* greenMachines, the local of CreateGreenMachines
    zombies,                 \* the zombie tag set of the sweep
    fleet,                   \* the machines as the platform sees them (leased: the
                             \* lease taken with Launch is held)
    calls,                   \* Fleet calls issued so far: <<operation, id>>
    attempts,                \* force-destroy attempts on blue machines, per machine
    machineIDToState,        \* state table of WaitForGreenMachinesToBeStarted
    machineIDToHealthStatus, \* health table of WaitForGreenMachinesToBeHealthy
    stopIDToState,           \* state table of WaitForBlueMachinesToBeStopped
    waiters,                 \* the goroutines of the wait phases
    done,                    \* completion counter of the stop wait
    merr,                    \* errors accumulated by the stop wait
    hangingBlueMachines,     \* bg.hangingBlueMachines
    deployErr,               \* what Deploy returned
    rollbackErr,             \* what Rollback returned
    firstRun,                \* firstRun of the status renderer of the current wait
    previousView,            \* previousView of that renderer
    lastWrite,               \* lines of the renderer's latest write, -1 before the first
    lastClear                \* the latest clearLinesAbove: <<count, lastWrite then>>

ctl == <<pc, idx>>
abort == <<aborted, abortedAt>>
env == <<aborted, abortedAt, ticker, faults>>
lists == <<blueMachines, greenMachines, localGreens, zombies, hangingBlueMachines>>
world == <<fleet, calls, attempts>>
tables == <<machineIDToState, machineIDToHealthStatus, stopIDToState>>
tasks == <<waiters, done, merr>>
rets == <<deployErr, rollbackErr>>
screen == <<firstRun, previousView, lastWrite, lastClear>>
vars == <<pc, idx, aborted, abortedAt, ticker, faults, blueMachines, greenMachines,
          localGreens, zombies, fleet, calls, attempts, machineIDToState,
          machineIDToHealthStatus, stopIDToState, waiters, done, merr,
          hangingBlueMachines, deployErr, rollbackErr, firstRun, previousView,
          lastWrite, lastClear>>

EmptyMap == [x \in {} |-> 0]

\* The blue entries of one run: entry k wraps machine BlueId(k) and its
\* launch spec (generation tag, skip_launch, service checks, top-level checks).
BlueInputs(n) ==
    { [k \in 1..n |->
          [id |-> BlueId(k), tag |-> t[k], skipLaunch |-> s[k],
           skipServiceRegistration |-> FALSE,
           services |-> c[k], checks |-> {}, state |-> "started"]] :
        t \in [1..n -> BGTagInputs], s \in [1..n -> BOOLEAN],
        c \in [1..n -> ServiceCheckInputs] }

\* BlueGreenStrategy(md, entries): the value after construction, hook
\* installed, with Deploy standing at `at`.
InitFrom(entries, at) ==
    /\ pc = at
    /\ idx = 0
    /\ aborted = FALSE
    /\ abortedAt = "never"
    /\ ticker = FALSE
    /\ faults = 0
    /\ blueMachines = entries
    /\ greenMachines = <<>>
    /\ localGreens = <<>>
    /\ zombies = {}
    /\ fleet = [m \in MachineIds |->
                  IF \E k \in 1..Len(entries) : m = BlueId(k)
                  THEN [exists |-> TRUE, cordoned |-> FALSE, state |-> "started",
                        tag |-> entries[CHOOSE k \in 1..Len(entries) : m = BlueId(k)].tag,
                        leased |-> FALSE]
                  ELSE [exists |-> FALSE, cordoned |-> FALSE, state |-> "none",
                        tag |-> <<>>, leased |-> FALSE]]
    /\ calls = {}
    /\ attempts = EmptyMap
    /\ machineIDToState = EmptyMap
    /\ machineIDToHealthStatus = EmptyMap
    /\ stopIDToState = EmptyMap
    /\ waiters = EmptyMap
    /\ done = 0
    /\ merr = <<>>
    /\ hangingBlueMachines = <<>>
    /\ deployErr = nil
    /\ rollbackErr = nil
    /\ firstRun = TRUE
    /\ previousView = EmptyMap
    /\ lastWrite = -1
    /\ lastClear = <<>>

Init == \E n \in 0..MaxBlue : \E entries \in BlueInputs(n) : InitFrom(entries, "start")

\* Deploy returns err.
Return(err) ==
    /\ pc' = "returned"
    /\ idx' = 0
    /\ deployErr' = err

\* bg.isAborted.
isAborted == aborted

\* The Ctrl+C hook closes bg.aborted, once; Deploy removes the hook when it
\* returns.
CtrlC ==
    /\ pc \notin {"returned", "panicked", "rolledback"}
    /\ ~aborted
    /\ aborted' = TRUE
    /\ abortedAt' = pc
    /\ UNCHANGED <<ctl, ticker, faults, lists, world, tables, tasks, rets>>
    /\ UNCHANGED screen

\* Deploy, entry: the first abort check.
DeployStart ==
    /\ pc = "start"
    /\ IF isAborted
       THEN Return(NewError(ErrAborted))
       ELSE pc' = "policy" /\ UNCHANGED <<idx, deployErr>>
    /\ UNCHANGED <<env, lists, world, tables, tasks, rollbackErr>>
    /\ UNCHANGED screen

\* The policy check without the return on a negative answer: the error is
\* set and Deploy goes on.
DeployPolicy_NoReturn ==
    /\ pc = "policy"
    /\ \/ /\ faults < MaxFaults
          /\ faults' = faults + 1
          /\ Return(NewError(FleetError))
       \/ /\ pc' = "sweep"
          /\ idx' = 0
          /\ deployErr' = NewError(ErrOrgLimit)
          /\ UNCHANGED faults
       \/ /\ pc' = "sweep"
          /\ idx' = 0
          /\ UNCHANGED <<faults, deployErr>>
    /\ UNCHANGED <<abort, ticker, lists, world, tables, tasks, rollbackErr>>
    /\ UNCHANGED screen

\* Deploy: the platform policy check.
DeployPolicy ==
    /\ pc = "policy"
    /\ \/ /\ faults < MaxFaults
          /\ faults' = faults + 1
          /\ Return(NewError(FleetError))
       \/ /\ Return(NewError(ErrOrgLimit))
          /\ UNCHANGED faults
       \/ /\ pc' = "sweep"
          /\ idx' = 0
          /\ UNCHANGED <<faults, deployErr>>
    /\ UNCHANGED <<abort, ticker, lists, world, tables, tasks, rollbackErr>>
    /\ UNCHANGED screen

(***************************************************************************)
(* Zombie sweep.                                                           *)
(***************************************************************************)
\* The generation tag of a launch spec as the sweep reads it: an empty tag is
\* first overwritten with "-1".
NormalizedTag(tag) == IF tag = <<>> THEN <<"-", "1">> ELSE tag

\* getZombies: parse every tag, sort, delete the tag printed from numbers[0].
\* An empty set makes numbers[0] an index out of range (a run-time panic).
getZombies(ids) ==
    IF \E s \in ids : ~Atoi(s).ok
    THEN [kind |-> "err", ids |-> ids]
    ELSE IF ids = {}
    THEN [kind |-> "panic", ids |-> ids]
    ELSE LET numbers == {Atoi(s).num : s \in ids}
             first == CHOOSE n \in numbers : \A m \in numbers : n <= m
         IN  [kind |-> "ok", ids |-> ids \ {Sprint(first)}]

\* retry.Attempts(3).
RetryAttempts == 3

\* Where control stands inside DeleteZombiesFromPreviousDeployment: "sweep" is
\* the call Deploy makes, "resweep" a second call made right after the first
\* returned nil.
InSweep == pc \in {"sweep", "resweep"}
\* Where a sweep that returns nil leaves control.
AfterSweep == IF pc = "sweep" THEN "validate" ELSE "reswept"

\* DeleteZombiesFromPreviousDeployment, up to the call of getZombies.
SweepBegin ==
    /\ InSweep
    /\ idx = 0
    /\ LET normalized == [k \in 1..Len(blueMachines) |->
                             [blueMachines[k] EXCEPT !.tag = NormalizedTag(@)]]
           tags == {normalized[k].tag : k \in 1..Len(normalized)}
           z == getZombies(tags)
       IN  /\ blueMachines' = normalized
           /\ IF Cardinality(tags) = 1
              THEN pc' = AfterSweep /\ UNCHANGED <<idx, zombies, deployErr>>
              ELSE CASE z.kind = "err" ->
                          Return(NewError(SyntaxError)) /\ UNCHANGED zombies
                     [] z.kind = "panic" ->
                          pc' = "panicked" /\ UNCHANGED <<idx, zombies, deployErr>>
                     [] OTHER ->
                          /\ zombies' = z.ids
                          /\ idx' = 1
                          /\ UNCHANGED <<pc, deployErr>>
    /\ UNCHANGED <<env, greenMachines, localGreens, hangingBlueMachines, world,
                   tables, tasks, rollbackErr>>
    /\ UNCHANGED screen


\* The sweep going on to the next entry after the retries on a zombie ran
\* out (a continue where the code returns the error).
SweepStep_Continue ==
    /\ InSweep
    /\ idx \in 1..Len(blueMachines)
    /\ LET mach == blueMachines[idx]
       IN  IF isAborted
           THEN /\ Return(NewError(ErrAborted))
                /\ UNCHANGED <<faults, world>>
           ELSE IF mach.tag \notin zombies
           THEN /\ idx' = idx + 1
                /\ UNCHANGED <<pc, deployErr, faults, world>>
           ELSE \E n \in 1..RetryAttempts, ok \in BOOLEAN :
                /\ ~ok => n = RetryAttempts
                /\ IF n > 1 \/ ~ok
                   THEN faults < MaxFaults /\ faults' = faults + 1
                   ELSE UNCHANGED faults
                /\ calls' = calls \cup {<<"Destroy", mach.id>>}
                /\ attempts' = (mach.id :> (n + IF mach.id \in DOMAIN attempts
                                                 THEN attempts[mach.id] ELSE 0))
                                   @@ attempts
                /\ fleet' = IF ok THEN [fleet EXCEPT ![mach.id].exists = FALSE] ELSE fleet
                /\ idx' = idx + 1
                /\ UNCHANGED <<pc, deployErr>>
    /\ UNCHANGED <<abort, ticker, lists, tables, tasks, rollbackErr>>
    /\ UNCHANGED screen

\* DeleteZombiesFromPreviousDeployment, one round of the destroy loop: the
\* abort check, then for a zombie the retried force-destroy.
SweepStep ==
    /\ InSweep
    /\ idx \in 1..Len(blueMachines)
    /\ LET mach == blueMachines[idx]
       IN  IF isAborted
           THEN /\ Return(NewError(ErrAborted))
                /\ UNCHANGED <<faults, world>>
           ELSE IF mach.tag \notin zombies
           THEN /\ idx' = idx + 1
                /\ UNCHANGED <<pc, deployErr, faults, world>>
           ELSE \E n \in 1..RetryAttempts, ok \in BOOLEAN :
                /\ ~ok => n = RetryAttempts
                /\ IF n > 1 \/ ~ok
                   THEN faults < MaxFaults /\ faults' = faults + 1
                   ELSE UNCHANGED faults
                /\ calls' = calls \cup {<<"Destroy", mach.id>>}
                /\ attempts' = (mach.id :> (n + IF mach.id \in DOMAIN attempts
                                                 THEN attempts[mach.id] ELSE 0))
                                   @@ attempts
                /\ IF ok
                   THEN /\ fleet' = [fleet EXCEPT ![mach.id].exists = FALSE]
                        /\ idx' = idx + 1
                        /\ UNCHANGED <<pc, deployErr>>
                   ELSE /\ Return(NewError(FleetError))
                        /\ UNCHANGED fleet
    /\ UNCHANGED <<abort, ticker, lists, tables, tasks, rollbackErr>>
    /\ UNCHANGED screen

\* The end of the sweep without the assignment bg.blueMachines = nonZombies.
SweepEnd_KeepList ==
    /\ InSweep
    /\ idx = Len(blueMachines) + 1
    /\ pc' = AfterSweep
    /\ idx' = 0
    /\ UNCHANGED <<env, lists, world, tables, tasks, rets>>
    /\ UNCHANGED screen

\* DeleteZombiesFromPreviousDeployment, after the loop: the zombies leave
\* bg.blueMachines.
SweepEnd ==
    /\ InSweep
    /\ idx = Len(blueMachines) + 1
    /\ blueMachines' = SelectSeq(blueMachines, LAMBDA mach : mach.tag \notin zombies)
    /\ pc' = AfterSweep
    /\ idx' = 0
    /\ UNCHANGED <<env, greenMachines, localGreens, zombies, hangingBlueMachines,
                   world, tables, tasks, rets>>
    /\ UNCHANGED screen

(***************************************************************************)
(* Check propagation and validation.                                       *)
(***************************************************************************)
\* attachCustomTopLevelChecks: every service check becomes a top-level check
\* named after its type.
attachCustomTopLevelChecks(entries) ==
    [k \in 1..Len(entries) |->
        [entries[k] EXCEPT !.checks = @ \cup {<<"bg_deployments_", t>> : t \in entries[k].services}]]

\* The count taken over all entries, with or without checks.
totalChecks_CountAll(entries) == Len(entries)

\* Validation as a test of every entry: one entry without checks brings the
\* count to zero.
totalChecks_AllOrNothing(entries) ==
    IF \E k \in 1..Len(entries) : entries[k].checks = {}
    THEN 0
    ELSE Len(entries)

\* Deploy: the count of entries that have checks.
totalChecks(entries) ==
    Cardinality({k \in 1..Len(entries) : entries[k].checks # {}})

\* Deploy: check propagation, then validation by check count.
DeployValidate ==
    /\ pc = "validate"
    /\ LET attached == attachCustomTopLevelChecks(blueMachines)
       IN  /\ blueMachines' = attached
           /\ IF totalChecks(attached) = 0 /\ Len(attached) # 0
              THEN Return(NewError(ErrValidationError)) /\ UNCHANGED localGreens
              ELSE /\ pc' = "create"
                   /\ idx' = 1
                   /\ localGreens' = <<>>
                   /\ UNCHANGED deployErr
    /\ UNCHANGED <<env, greenMachines, zombies, hangingBlueMachines, world,
                   tables, tasks, rollbackErr>>
    /\ UNCHANGED screen

(***************************************************************************)
(* Create.                                                                 *)
(***************************************************************************)
\* The launch spec of an entry handed to Launch as it was loaded, neither
\* suppressed nor stamped.
LaunchInput_AsLoaded(mach) == mach

\* CreateGreenMachines: the launch spec of an entry, set to skip service
\* registration and stamped with the deployment's tag.  The spec is shared
\* with the blue entry, which sees both changes.
LaunchInput(mach) ==
    [mach EXCEPT !.skipServiceRegistration = TRUE, !.tag = timestamp]

\* The machine Launch returns for a launch spec: with skip_service_registration
\* it is created out of the proxy's routing table; it carries the tag and the
\* checks of the spec, and the deployment holds its lease.
Launched(launchInput) ==
    [exists |-> TRUE, cordoned |-> launchInput.skipServiceRegistration,
     state |-> "created", tag |-> launchInput.tag, leased |-> TRUE]

\* The deferred ReleaseLease calls of CreateGreenMachines, run when it returns:
\* the lease of every machine launched so far is given up.
ReleaseLease(entries) ==
    [m \in MachineIds |->
        IF m \in {entries[k].id : k \in 1..Len(entries)}
        THEN [fleet[m] EXCEPT !.leased = FALSE]
        ELSE fleet[m]]

\* The green entry that pairs the launched machine with the launch spec.
GreenEntry(mach) ==
    [id |-> GreenId(mach.id[2]), skipLaunch |-> mach.skipLaunch,
     checks |-> mach.checks, blue |-> mach.id]

\* CreateGreenMachines, one round of the loop: stamp the tag, Launch; a failed
\* Launch returns through the deferred lease releases.
CreateStep ==
    /\ pc = "create"
    /\ idx \in 1..Len(blueMachines)
    /\ LET mach == blueMachines[idx]
           g == GreenEntry(mach)
       IN  /\ blueMachines' = [blueMachines EXCEPT ![idx] = LaunchInput(mach)]
           /\ calls' = calls \cup {<<"Launch", g.id>>}
           /\ \/ /\ faults < MaxFaults
                 /\ faults' = faults + 1
                 /\ Return(Wrap(NewError(FleetError), ErrCreateGreenMachine))
                 /\ fleet' = ReleaseLease(localGreens)
                 /\ UNCHANGED localGreens
              \/ /\ fleet' = [fleet EXCEPT ![g.id] = Launched(LaunchInput(mach))]
                 /\ localGreens' = Append(localGreens, g)
                 /\ idx' = idx + 1
                 /\ UNCHANGED <<pc, deployErr, faults>>
    /\ UNCHANGED <<abort, ticker, greenMachines, zombies, hangingBlueMachines,
                   attempts, tables, tasks, rollbackErr>>
    /\ UNCHANGED screen

\* CreateGreenMachines, after the loop: bg.greenMachines is set and the
\* deferred lease releases run; then Deploy's abort check.
CreateEnd ==
    /\ pc = "create"
    /\ idx = Len(blueMachines) + 1
    /\ greenMachines' = localGreens
    /\ fleet' = ReleaseLease(localGreens)
    /\ IF isAborted
       THEN Return(NewError(ErrAborted))
       ELSE pc' = "startwait" /\ idx' = 0 /\ UNCHANGED deployErr
    /\ UNCHANGED <<env, blueMachines, localGreens, zombies, hangingBlueMachines,
                   calls, attempts, tables, tasks, rollbackErr>>
    /\ UNCHANGED screen

(***************************************************************************)
(* The wait phases.  A goroutine is "waiting" (inside its Fleet call),     *)
(* "sending" (blocked on the unbuffered errChan with its error), "sent"    *)
(* (its error was received, the stop waiter has yet to count itself) or    *)
(* "done".                                                                 *)
(***************************************************************************)
Waiter(phase, id) == <<phase, id>>
Spawn(phase, ids) == [w \in {Waiter(phase, id) : id \in ids} |-> "waiting"]
Sending(phase) == {w \in DOMAIN waiters : w[1] = phase /\ waiters[w] = "sending"}
GreenIds(entries) == {entries[k].id : k \in 1..Len(entries)}

\* allMachinesStarted satisfied by one started machine (started > 0 where
\* the code compares with len(stateMap)).
allMachinesStarted_Any(stateMap) ==
    Cardinality({id \in DOMAIN stateMap : stateMap[id] = "started"}) > 0

\* allMachinesStarted.
allMachinesStarted(stateMap) ==
    Cardinality({id \in DOMAIN stateMap : stateMap[id] = "started"})
        = Cardinality(DOMAIN stateMap)

\* allMachinesHealthy without the guard on Total: an entry that has no sample
\* yet (0 of 0) counts as passed.
allMachinesHealthy_ZeroPasses(stateMap) ==
    Cardinality({id \in DOMAIN stateMap : stateMap[id].Passing = stateMap[id].Total})
        = Cardinality(DOMAIN stateMap)

\* allMachinesHealthy: entries without a sample (Total = 0) do not count.
allMachinesHealthy(stateMap) ==
    Cardinality({id \in DOMAIN stateMap :
                    stateMap[id].Total # 0 /\ stateMap[id].Passing = stateMap[id].Total})
        = Cardinality(DOMAIN stateMap)

\* The start wait spawning a waiter for every entry, skip_launch or not.
StartWaited_All(entries) == {entries[k].id : k \in 1..Len(entries)}

\* WaitForGreenMachinesToBeStarted: the entries that get a waiter.
StartWaited(entries) ==
    {entries[k].id : k \in {j \in 1..Len(entries) : ~entries[j].skipLaunch}}

\* The health wait without the test of len(Checks): every entry that is not
\* skip_launch gets a health entry and a poller.
HealthWaited_All(entries) ==
    {entries[k].id : k \in {j \in 1..Len(entries) : ~entries[j].skipLaunch}}

\* WaitForGreenMachinesToBeHealthy: the entries that get a health entry and a
\* poller.
HealthWaited(entries) ==
    {entries[k].id : k \in {j \in 1..Len(entries) :
                              ~entries[j].skipLaunch /\ entries[j].checks # {}}}


\* renderMachineStates / renderMachineHealthchecks: the closure a wait phase
\* builds before its loop, with nothing drawn or cleared yet.
NewRenderer ==
    /\ firstRun' = TRUE
    /\ previousView' = EmptyMap
    /\ lastWrite' = -1
    /\ lastClear' = <<>>

\* The ticker of a wait phase fires: bg.timeout has elapsed since the phase
\* began.
TickerFires ==
    /\ pc \in {"startwait", "healthwait", "stopwait"}
    /\ idx = 1
    /\ ~ticker
    /\ ticker' = TRUE
    /\ UNCHANGED <<ctl, abort, faults, lists, world, tables, tasks, rets>>
    /\ UNCHANGED screen

\* WaitForGreenMachinesToBeStarted, up to the loop: the table, the waiters.
StartWaitBegin ==
    /\ pc = "startwait"
    /\ idx = 0
    /\ machineIDToState' =
          [id \in GreenIds(greenMachines) |->
              IF id \in StartWaited(greenMachines) THEN "created" ELSE "started"]
    /\ waiters' = Spawn("start", StartWaited(greenMachines)) @@ waiters
    /\ ticker' = FALSE
    /\ idx' = 1
    /\ UNCHANGED <<pc, abort, faults, lists, world, machineIDToHealthStatus,
                   stopIDToState, done, merr, rets>>
    /\ NewRenderer

\* A start waiter that writes "started" into the table when it is spawned
\* and only then waits for the machine.
StartWaiterOk_WritesEarly(id) ==
    /\ Waiter("start", id) \in DOMAIN waiters
    /\ waiters[Waiter("start", id)] = "waiting"
    /\ fleet[id].exists
    /\ machineIDToState' = [machineIDToState EXCEPT ![id] = "started"]
    /\ \/ /\ fleet' = [fleet EXCEPT ![id].state = "started"]
          /\ waiters' = [waiters EXCEPT ![Waiter("start", id)] = "done"]
       \/ UNCHANGED <<fleet, waiters>>
    /\ UNCHANGED <<ctl, env, lists, calls, attempts, machineIDToHealthStatus,
                   stopIDToState, done, merr, rets>>
    /\ UNCHANGED screen

\* A start waiter: WaitForStartOrStop returned nil, the table says started.
StartWaiterOk(id) ==
    /\ Waiter("start", id) \in DOMAIN waiters
    /\ waiters[Waiter("start", id)] = "waiting"
    /\ fleet[id].exists
    /\ fleet' = [fleet EXCEPT ![id].state = "started"]
    /\ machineIDToState' = [machineIDToState EXCEPT ![id] = "started"]
    /\ waiters' = [waiters EXCEPT ![Waiter("start", id)] = "done"]
    /\ UNCHANGED <<ctl, env, lists, calls, attempts, machineIDToHealthStatus,
                   stopIDToState, done, merr, rets>>
    /\ UNCHANGED screen

\* A waiter of the start or the stop wait goes from its Fleet call to the
\* send on errChan, where it blocks until the foreground loop receives.
WaiterSends(phase, id) ==
    /\ phase \in {"start", "stop"}
    /\ Waiter(phase, id) \in DOMAIN waiters
    /\ waiters[Waiter(phase, id)] = "waiting"
    /\ waiters' = [waiters EXCEPT ![Waiter(phase, id)] = "sending"]
    /\ UNCHANGED <<ctl, abort, ticker, lists, world, tables, done, merr, rets>>
    /\ UNCHANGED screen

\* A waiter of the start or the stop wait: WaitForStartOrStop returned an
\* error (the call failed, or its own bg.timeout ran out), which the waiter
\* now sends.
WaiterErr(phase, id) ==
    /\ faults < MaxFaults
    /\ faults' = faults + 1
    /\ WaiterSends(phase, id)

\* What Deploy does with the result of WaitForGreenMachinesToBeStarted.
StartWaitReturn(err) ==
    IF err # nil
    THEN Return(Wrap(err, ErrWaitForStartedState))
    ELSE IF isAborted
    THEN Return(NewError(ErrAborted))
    ELSE pc' = "healthwait" /\ idx' = 0 /\ UNCHANGED deployErr

\* WaitForGreenMachinesToBeStarted, one round of the foreground loop.  The
\* default case of the select sleeps and redraws; it changes nothing here.
\* The ticker is a local of the phase: it is gone when the phase returns.
StartWaitLoop ==
    /\ pc = "startwait"
    /\ idx = 1
    /\ IF allMachinesStarted(machineIDToState)
       THEN StartWaitReturn(nil) /\ UNCHANGED waiters
       ELSE IF isAborted
       THEN StartWaitReturn(NewError(ErrAborted)) /\ UNCHANGED waiters
       ELSE \/ /\ ticker
               /\ StartWaitReturn(NewError(ErrWaitTimeout))
               /\ UNCHANGED waiters
            \/ \E w \in Sending("start") :
               /\ StartWaitReturn(NewError(FleetError))
               /\ waiters' = [waiters EXCEPT ![w] = "done"]
    /\ ticker' = (ticker /\ pc' = pc)
    /\ UNCHANGED <<abort, faults, lists, world, tables, done, merr, rollbackErr>>
    /\ UNCHANGED screen

\* The aggregates Get may report for a machine with at least one check.
HealthSamples(checks) ==
    {[Passing |-> p, Total |-> t] : p \in 0..Cardinality(checks), t \in {0, Cardinality(checks)}}
        \ {[Passing |-> 1, Total |-> 0]}

\* WaitForGreenMachinesToBeHealthy, up to the loop: the table, the pollers.
HealthWaitBegin ==
    /\ pc = "healthwait"
    /\ idx = 0
    /\ machineIDToHealthStatus' =
          [id \in HealthWaited(greenMachines) |-> [Passing |-> 0, Total |-> 0]]
    /\ waiters' = Spawn("health", HealthWaited(greenMachines)) @@ waiters
    /\ ticker' = FALSE
    /\ idx' = 1
    /\ UNCHANGED <<pc, abort, faults, lists, world, machineIDToState,
                   stopIDToState, done, merr, rets>>
    /\ NewRenderer

\* A health poller that goes on polling after an all-passing sample.
HealthPoll_KeepsPolling(id) ==
    /\ Waiter("health", id) \in DOMAIN waiters
    /\ waiters[Waiter("health", id)] = "waiting"
    /\ calls' = calls \cup {<<"Get", id>>}
    /\ \/ /\ faults < MaxFaults
          /\ faults' = faults + 1
          /\ waiters' = [waiters EXCEPT ![Waiter("health", id)] = "sending"]
          /\ UNCHANGED machineIDToHealthStatus
       \/ /\ fleet[id].exists
          /\ \E gm \in {greenMachines[k] : k \in 1..Len(greenMachines)} :
             /\ gm.id = id
             /\ \E status \in HealthSamples(gm.checks) :
                /\ machineIDToHealthStatus' =
                      [machineIDToHealthStatus EXCEPT ![id] = status]
                /\ UNCHANGED waiters
          /\ UNCHANGED faults
    /\ UNCHANGED <<ctl, abort, ticker, lists, fleet, attempts, machineIDToState,
                   stopIDToState, done, merr, rets>>
    /\ UNCHANGED screen

\* A health poller, one round: Get, then either an error to send (the derived
\* context is past its deadline, or Get failed) or the sample goes into the
\* table, and the poller ends when the sample is all passing.
HealthPoll(id) ==
    /\ Waiter("health", id) \in DOMAIN waiters
    /\ waiters[Waiter("health", id)] = "waiting"
    /\ calls' = calls \cup {<<"Get", id>>}
    /\ \/ /\ faults < MaxFaults
          /\ faults' = faults + 1
          /\ waiters' = [waiters EXCEPT ![Waiter("health", id)] = "sending"]
          /\ UNCHANGED machineIDToHealthStatus
       \/ /\ fleet[id].exists
          /\ \E gm \in {greenMachines[k] : k \in 1..Len(greenMachines)} :
             /\ gm.id = id
             /\ \E status \in HealthSamples(gm.checks) :
                /\ machineIDToHealthStatus' =
                      [machineIDToHealthStatus EXCEPT ![id] = status]
                /\ waiters' =
                      IF status.Total = status.Passing /\ status.Total # 0
                      THEN [waiters EXCEPT ![Waiter("health", id)] = "done"]
                      ELSE waiters
          /\ UNCHANGED faults
    /\ UNCHANGED <<ctl, abort, ticker, lists, fleet, attempts, machineIDToState,
                   stopIDToState, done, merr, rets>>
    /\ UNCHANGED screen

\* Deploy returning the error of WaitForGreenMachinesToBeHealthy as it is,
\* without errors.Wrap.
HealthWaitReturn_NoWrap(err) ==
    IF err # nil
    THEN Return(err)
    ELSE IF isAborted
    THEN Return(NewError(ErrAborted))
    ELSE pc' = "markready" /\ idx' = 1 /\ UNCHANGED deployErr

\* What Deploy does with the result of WaitForGreenMachinesToBeHealthy.
HealthWaitReturn(err) ==
    IF err # nil
    THEN Return(Wrap(err, ErrWaitForHealthy))
    ELSE IF isAborted
    THEN Return(NewError(ErrAborted))
    ELSE pc' = "markready" /\ idx' = 1 /\ UNCHANGED deployErr

\* WaitForGreenMachinesToBeHealthy, one round of the foreground loop.
HealthWaitLoop ==
    /\ pc = "healthwait"
    /\ idx = 1
    /\ IF allMachinesHealthy(machineIDToHealthStatus)
       THEN HealthWaitReturn(nil) /\ UNCHANGED waiters
       ELSE IF isAborted
       THEN HealthWaitReturn(NewError(ErrAborted)) /\ UNCHANGED waiters
       ELSE \/ /\ ticker
               /\ HealthWaitReturn(NewError(ErrWaitTimeout))
               /\ UNCHANGED waiters
            \/ \E w \in Sending("health") :
               /\ HealthWaitReturn(NewError(FleetError))
               /\ waiters' = [waiters EXCEPT ![w] = "done"]
    /\ ticker' = (ticker /\ pc' = pc)
    /\ UNCHANGED <<abort, faults, lists, world, tables, done, merr, rollbackErr>>
    /\ UNCHANGED screen

(***************************************************************************)
(* The swap: uncordon green, cordon blue, stop blue.                       *)
(***************************************************************************)
\* MarkGreenMachinesAsReadyForTraffic treating a failed Uncordon the way the
\* cordon phase treats a failed Cordon: log it and go on.
MarkReadyStep_Swallow ==
    /\ pc = "markready"
    /\ idx \in 1..Len(greenMachines)
    /\ LET gm == greenMachines[idx]
       IN  IF isAborted
           THEN /\ Return(Wrap(NewError(ErrAborted), ErrMarkReadyForTraffic))
                /\ UNCHANGED <<faults, fleet, calls>>
           ELSE /\ calls' = calls \cup {<<"Uncordon", gm.id>>}
                /\ idx' = idx + 1
                /\ UNCHANGED <<pc, deployErr>>
                /\ \/ /\ faults < MaxFaults
                      /\ faults' = faults + 1
                      /\ UNCHANGED fleet
                   \/ /\ fleet' = [fleet EXCEPT ![gm.id].cordoned = FALSE]
                      /\ UNCHANGED faults
    /\ UNCHANGED <<abort, ticker, lists, attempts, tables, tasks, rollbackErr>>
    /\ UNCHANGED screen

\* MarkGreenMachinesAsReadyForTraffic, one round of the loop.
MarkReadyStep ==
    /\ pc = "markready"
    /\ idx \in 1..Len(greenMachines)
    /\ LET gm == greenMachines[idx]
       IN  IF isAborted
           THEN /\ Return(Wrap(NewError(ErrAborted), ErrMarkReadyForTraffic))
                /\ UNCHANGED <<faults, fleet, calls>>
           ELSE /\ calls' = calls \cup {<<"Uncordon", gm.id>>}
                /\ \/ /\ faults < MaxFaults
                      /\ faults' = faults + 1
                      /\ Return(Wrap(NewError(FleetError), ErrMarkReadyForTraffic))
                      /\ UNCHANGED fleet
                   \/ /\ fleet' = [fleet EXCEPT ![gm.id].cordoned = FALSE]
                      /\ idx' = idx + 1
                      /\ UNCHANGED <<pc, deployErr, faults>>
    /\ UNCHANGED <<abort, ticker, lists, attempts, tables, tasks, rollbackErr>>
    /\ UNCHANGED screen

\* MarkGreenMachinesAsReadyForTraffic returns nil; Deploy's abort check.
MarkReadyEnd ==
    /\ pc = "markready"
    /\ idx = Len(greenMachines) + 1
    /\ IF isAborted
       THEN Return(NewError(ErrAborted))
       ELSE pc' = "grace1" /\ idx' = 0 /\ UNCHANGED deployErr
    /\ UNCHANGED <<env, lists, world, tables, tasks, rollbackErr>>
    /\ UNCHANGED screen

\* Deploy: sleepAbortable before the cordon phase.  An abort that arrives
\* during the sleep ends it like one that arrived before it.
GraceBeforeCordon ==
    /\ pc = "grace1"
    /\ IF isAborted
       THEN Return(NewError(ErrAborted))
       ELSE pc' = "cordon" /\ idx' = 1 /\ UNCHANGED deployErr
    /\ UNCHANGED <<env, lists, world, tables, tasks, rollbackErr>>
    /\ UNCHANGED screen

\* CordonBlueMachines leaving its loop at the first failed Cordon (a break
\* where the code has continue).
CordonStep_Break ==
    /\ pc = "cordon"
    /\ idx \in 1..Len(blueMachines)
    /\ LET gm == blueMachines[idx]
       IN  IF isAborted
           THEN /\ Return(Wrap(NewError(ErrAborted), ErrCordonBlueMachines))
                /\ UNCHANGED <<faults, fleet, calls>>
           ELSE /\ calls' = calls \cup {<<"Cordon", gm.id>>}
                /\ UNCHANGED <<pc, deployErr>>
                /\ \/ /\ faults < MaxFaults
                      /\ faults' = faults + 1
                      /\ idx' = Len(blueMachines) + 1
                      /\ UNCHANGED fleet
                   \/ /\ fleet' = [fleet EXCEPT ![gm.id].cordoned = TRUE]
                      /\ idx' = idx + 1
                      /\ UNCHANGED faults
    /\ UNCHANGED <<abort, ticker, lists, attempts, tables, tasks, rollbackErr>>
    /\ UNCHANGED screen

\* CordonBlueMachines, one round of the loop: a failed cordon is only logged.
CordonStep ==
    /\ pc = "cordon"
    /\ idx \in 1..Len(blueMachines)
    /\ LET gm == blueMachines[idx]
       IN  IF isAborted
           THEN /\ Return(Wrap(NewError(ErrAborted), ErrCordonBlueMachines))
                /\ UNCHANGED <<faults, fleet, calls>>
           ELSE /\ calls' = calls \cup {<<"Cordon", gm.id>>}
                /\ idx' = idx + 1
                /\ UNCHANGED <<pc, deployErr>>
                /\ \/ /\ faults < MaxFaults
                      /\ faults' = faults + 1
                      /\ UNCHANGED fleet
                   \/ /\ fleet' = [fleet EXCEPT ![gm.id].cordoned = TRUE]
                      /\ UNCHANGED faults
    /\ UNCHANGED <<abort, ticker, lists, attempts, tables, tasks, rollbackErr>>
    /\ UNCHANGED screen

\* CordonBlueMachines returns nil; Deploy's abort check.
CordonEnd ==
    /\ pc = "cordon"
    /\ idx = Len(blueMachines) + 1
    /\ IF isAborted
       THEN Return(NewError(ErrAborted))
       ELSE pc' = "grace2" /\ idx' = 0 /\ UNCHANGED deployErr
    /\ UNCHANGED <<env, lists, world, tables, tasks, rollbackErr>>
    /\ UNCHANGED screen

\* Deploy going from the second sleep straight to the stop wait, without
\* the call of StopBlueMachines.
GraceBeforeStop_SkipStop ==
    /\ pc = "grace2"
    /\ IF isAborted
       THEN Return(NewError(ErrAborted))
       ELSE pc' = "stopwait" /\ idx' = 0 /\ UNCHANGED deployErr
    /\ UNCHANGED <<env, lists, world, tables, tasks, rollbackErr>>
    /\ UNCHANGED screen

\* Deploy: sleepAbortable before the stop phase.
GraceBeforeStop ==
    /\ pc = "grace2"
    /\ IF isAborted
       THEN Return(NewError(ErrAborted))
       ELSE pc' = "stop" /\ idx' = 1 /\ UNCHANGED deployErr
    /\ UNCHANGED <<env, lists, world, tables, tasks, rollbackErr>>
    /\ UNCHANGED screen


\* StopBlueMachines returning the error of a failed Stop, which Deploy wraps
\* in ErrStopBlueMachines.
StopStep_Fatal ==
    /\ pc = "stop"
    /\ idx \in 1..Len(blueMachines)
    /\ LET gm == blueMachines[idx]
       IN  IF isAborted
           THEN /\ Return(Wrap(NewError(ErrAborted), ErrStopBlueMachines))
                /\ UNCHANGED <<faults, fleet, calls>>
           ELSE /\ calls' = calls \cup {<<"Stop", gm.id>>}
                /\ \/ /\ faults < MaxFaults
                      /\ faults' = faults + 1
                      /\ Return(Wrap(NewError(FleetError), ErrStopBlueMachines))
                      /\ UNCHANGED fleet
                   \/ /\ fleet' = [fleet EXCEPT ![gm.id].state = "stopping"]
                      /\ idx' = idx + 1
                      /\ UNCHANGED <<pc, deployErr, faults>>
    /\ UNCHANGED <<abort, ticker, lists, attempts, tables, tasks, rollbackErr>>
    /\ UNCHANGED screen

\* StopBlueMachines, one round of the loop: a failed stop is only logged.
StopStep ==
    /\ pc = "stop"
    /\ idx \in 1..Len(blueMachines)
    /\ LET gm == blueMachines[idx]
       IN  IF isAborted
           THEN /\ Return(Wrap(NewError(ErrAborted), ErrStopBlueMachines))
                /\ UNCHANGED <<faults, fleet, calls>>
           ELSE /\ calls' = calls \cup {<<"Stop", gm.id>>}
                /\ idx' = idx + 1
                /\ UNCHANGED <<pc, deployErr>>
                /\ \/ /\ faults < MaxFaults
                      /\ faults' = faults + 1
                      /\ UNCHANGED fleet
                   \/ /\ fleet' = [fleet EXCEPT ![gm.id].state = "stopping"]
                      /\ UNCHANGED faults
    /\ UNCHANGED <<abort, ticker, lists, attempts, tables, tasks, rollbackErr>>
    /\ UNCHANGED screen

\* StopBlueMachines returns nil; Deploy goes on to the stop wait.
StopEnd ==
    /\ pc = "stop"
    /\ idx = Len(blueMachines) + 1
    /\ pc' = "stopwait"
    /\ idx' = 0
    /\ UNCHANGED <<env, lists, world, tables, tasks, rets>>
    /\ UNCHANGED screen

(***************************************************************************)
(* Stop wait and destroy.                                                  *)
(***************************************************************************)
\* WaitForBlueMachinesToBeStopped, up to the loop: the table starts from the
\* state each blue machine was loaded with; every blue machine gets a waiter.
StopWaitBegin ==
    /\ pc = "stopwait"
    /\ idx = 0
    /\ stopIDToState' =
          [id \in {blueMachines[k].id : k \in 1..Len(blueMachines)} |->
              (CHOOSE gm \in {blueMachines[k] : k \in 1..Len(blueMachines)} : gm.id = id).state]
    /\ waiters' = Spawn("stop", {blueMachines[k].id : k \in 1..Len(blueMachines)}) @@ waiters
    /\ done' = 0
    /\ merr' = <<>>
    /\ ticker' = FALSE
    /\ idx' = 1
    /\ UNCHANGED <<pc, abort, faults, lists, world, machineIDToState,
                   machineIDToHealthStatus, rets>>
    /\ NewRenderer

\* A stop waiter: WaitForStartOrStop returned nil; the table says stopped and
\* the waiter counts itself.
StopWaiterOk(id) ==
    /\ Waiter("stop", id) \in DOMAIN waiters
    /\ waiters[Waiter("stop", id)] = "waiting"
    /\ fleet[id].exists
    /\ fleet' = [fleet EXCEPT ![id].state = "stopped"]
    /\ stopIDToState' = [stopIDToState EXCEPT ![id] = "stopped"]
    /\ waiters' = [waiters EXCEPT ![Waiter("stop", id)] = "done"]
    /\ done' = done + 1
    /\ UNCHANGED <<ctl, env, lists, calls, attempts, machineIDToState,
                   machineIDToHealthStatus, merr, rets>>
    /\ UNCHANGED screen

\* A stop waiter whose send does not wait for a receiver: it counts itself
\* as soon as it has its error.
StopWaiterCount_NoBlock(id) ==
    /\ Waiter("stop", id) \in DOMAIN waiters
    /\ waiters[Waiter("stop", id)] \in {"sending", "sent"}
    /\ waiters' = [waiters EXCEPT ![Waiter("stop", id)] = "done"]
    /\ done' = done + 1
    /\ UNCHANGED <<ctl, env, lists, world, tables, merr, rets>>
    /\ UNCHANGED screen

\* A stop waiter whose error was received counts itself.
StopWaiterCount(id) ==
    /\ Waiter("stop", id) \in DOMAIN waiters
    /\ waiters[Waiter("stop", id)] = "sent"
    /\ waiters' = [waiters EXCEPT ![Waiter("stop", id)] = "done"]
    /\ done' = done + 1
    /\ UNCHANGED <<ctl, env, lists, world, tables, merr, rets>>
    /\ UNCHANGED screen

\* Deploy returning every error of WaitForBlueMachinesToBeStopped, the
\* accumulated ones included.
StopWaitReturn_Fatal(err, isMultierror) ==
    IF err # nil
    THEN Return(Wrap(err, ErrWaitForStoppedState))
    ELSE pc' = "destroy" /\ idx' = 1 /\ UNCHANGED deployErr

\* What Deploy does with the result of WaitForBlueMachinesToBeStopped: a
\* multierror is printed and Deploy goes on; any other error is returned.
StopWaitReturn(err, isMultierror) ==
    IF err # nil /\ ~isMultierror
    THEN Return(Wrap(err, ErrWaitForStoppedState))
    ELSE pc' = "destroy" /\ idx' = 1 /\ UNCHANGED deployErr

\* WaitForBlueMachinesToBeStopped with a select that has no case for the
\* ticker.
StopWaitLoop_NoTimeout ==
    /\ pc = "stopwait"
    /\ idx = 1
    /\ IF done = Len(blueMachines)
       THEN StopWaitReturn(merr, TRUE) /\ UNCHANGED <<waiters, merr>>
       ELSE IF isAborted
       THEN StopWaitReturn(NewError(ErrAborted), FALSE) /\ UNCHANGED <<waiters, merr>>
       ELSE \E w \in Sending("stop") :
               /\ merr' = Append(merr, w[2])
               /\ waiters' = [waiters EXCEPT ![w] = "sent"]
               /\ UNCHANGED <<ctl, deployErr>>
    /\ ticker' = (ticker /\ pc' = pc)
    /\ UNCHANGED <<abort, faults, lists, world, tables, done, rollbackErr>>
    /\ UNCHANGED screen

\* WaitForBlueMachinesToBeStopped, one round of the foreground loop.
StopWaitLoop ==
    /\ pc = "stopwait"
    /\ idx = 1
    /\ IF done = Len(blueMachines)
       THEN StopWaitReturn(merr, TRUE) /\ UNCHANGED <<waiters, merr>>
       ELSE IF isAborted
       THEN StopWaitReturn(NewError(ErrAborted), FALSE) /\ UNCHANGED <<waiters, merr>>
       ELSE \/ /\ ticker
               /\ StopWaitReturn(NewError(ErrWaitTimeout), FALSE)
               /\ UNCHANGED <<waiters, merr>>
            \/ \E w \in Sending("stop") :
               /\ merr' = Append(merr, w[2])
               /\ waiters' = [waiters EXCEPT ![w] = "sent"]
               /\ UNCHANGED <<ctl, deployErr>>
    /\ ticker' = (ticker /\ pc' = pc)
    /\ UNCHANGED <<abort, faults, lists, world, tables, done, rollbackErr>>
    /\ UNCHANGED screen

\* The force-destroy attempts made on machine id so far.
Attempts(id) == IF id \in DOMAIN attempts THEN attempts[id] ELSE 0


\* The destroy phase with its abort reaching the caller as the bare
\* ErrAborted, without the wrap in ErrDestroyBlueMachines.
DestroyStep_BareAbort ==
    /\ pc = "destroy"
    /\ idx \in 1..Len(blueMachines)
    /\ LET gm == blueMachines[idx]
       IN  IF isAborted
           THEN /\ Return(NewError(ErrAborted))
                /\ UNCHANGED <<faults, fleet, calls, attempts, hangingBlueMachines>>
           ELSE /\ calls' = calls \cup {<<"Destroy", gm.id>>}
                /\ attempts' = (gm.id :> (Attempts(gm.id) + 1)) @@ attempts
                /\ idx' = idx + 1
                /\ UNCHANGED <<pc, deployErr>>
                /\ \/ /\ faults < MaxFaults
                      /\ faults' = faults + 1
                      /\ hangingBlueMachines' = Append(hangingBlueMachines, gm.id)
                      /\ UNCHANGED fleet
                   \/ /\ fleet' = [fleet EXCEPT ![gm.id].exists = FALSE]
                      /\ UNCHANGED <<faults, hangingBlueMachines>>
    /\ UNCHANGED <<abort, ticker, blueMachines, greenMachines, localGreens,
                   zombies, tables, tasks, rollbackErr>>
    /\ UNCHANGED screen

\* DestroyBlueMachines leaving its loop at the first failed destroy (a break
\* where the code has continue).
DestroyStep_Break ==
    /\ pc = "destroy"
    /\ idx \in 1..Len(blueMachines)
    /\ LET gm == blueMachines[idx]
       IN  IF isAborted
           THEN /\ Return(Wrap(NewError(ErrAborted), ErrDestroyBlueMachines))
                /\ UNCHANGED <<faults, fleet, calls, attempts, hangingBlueMachines>>
           ELSE /\ calls' = calls \cup {<<"Destroy", gm.id>>}
                /\ attempts' = (gm.id :> (Attempts(gm.id) + 1)) @@ attempts
                /\ UNCHANGED <<pc, deployErr>>
                /\ \/ /\ faults < MaxFaults
                      /\ faults' = faults + 1
                      /\ hangingBlueMachines' = Append(hangingBlueMachines, gm.id)
                      /\ idx' = Len(blueMachines) + 1
                      /\ UNCHANGED fleet
                   \/ /\ fleet' = [fleet EXCEPT ![gm.id].exists = FALSE]
                      /\ idx' = idx + 1
                      /\ UNCHANGED <<faults, hangingBlueMachines>>
    /\ UNCHANGED <<abort, ticker, blueMachines, greenMachines, localGreens,
                   zombies, tables, tasks, rollbackErr>>
    /\ UNCHANGED screen

\* DestroyBlueMachines, one round of the loop: a failed destroy is remembered
\* in bg.hangingBlueMachines and the loop goes on.
DestroyStep ==
    /\ pc = "destroy"
    /\ idx \in 1..Len(blueMachines)
    /\ LET gm == blueMachines[idx]
       IN  IF isAborted
           THEN /\ Return(Wrap(NewError(ErrAborted), ErrDestroyBlueMachines))
                /\ UNCHANGED <<faults, fleet, calls, attempts, hangingBlueMachines>>
           ELSE /\ calls' = calls \cup {<<"Destroy", gm.id>>}
                /\ attempts' = (gm.id :> (Attempts(gm.id) + 1)) @@ attempts
                /\ idx' = idx + 1
                /\ UNCHANGED <<pc, deployErr>>
                /\ \/ /\ faults < MaxFaults
                      /\ faults' = faults + 1
                      /\ hangingBlueMachines' = Append(hangingBlueMachines, gm.id)
                      /\ UNCHANGED fleet
                   \/ /\ fleet' = [fleet EXCEPT ![gm.id].exists = FALSE]
                      /\ UNCHANGED <<faults, hangingBlueMachines>>
    /\ UNCHANGED <<abort, ticker, blueMachines, greenMachines, localGreens,
                   zombies, tables, tasks, rollbackErr>>
    /\ UNCHANGED screen

\* DestroyBlueMachines returns nil, and so does Deploy.
DestroyEnd ==
    /\ pc = "destroy"
    /\ idx = Len(blueMachines) + 1
    /\ Return(nil)
    /\ UNCHANGED <<env, lists, world, tables, tasks, rollbackErr>>
    /\ UNCHANGED screen

(***************************************************************************)
(* Rollback.                                                               *)
(***************************************************************************)
\* The caller of Deploy calls Rollback when Deploy returned an error.
RollbackCalled == pc = "returned" /\ deployErr # nil


\* Rollback without the test for the destroy-blue failure: the machines of
\* bg.greenMachines are force-destroyed whatever Deploy returned.
Rollback_AlwaysDestroys ==
    /\ RollbackCalled
    /\ pc' = "rolledback"
    /\ \E n \in 0..Len(greenMachines) :
       LET reached == {greenMachines[k].id :
                          k \in {j \in 1..Len(greenMachines) : j <= n + 1}}
           destroyed == {greenMachines[k].id : k \in 1..n}
       IN  /\ calls' = calls \cup {<<"Destroy", id>> : id \in reached}
           /\ fleet' = [m \in MachineIds |->
                          IF m \in destroyed
                          THEN [fleet[m] EXCEPT !.exists = FALSE]
                          ELSE fleet[m]]
           /\ IF n < Len(greenMachines)
              THEN /\ faults < MaxFaults
                   /\ faults' = faults + 1
                   /\ rollbackErr' = NewError(FleetError)
              ELSE /\ rollbackErr' = nil
                   /\ UNCHANGED faults
    /\ UNCHANGED <<idx, abort, ticker, lists, attempts, tables, tasks, deployErr>>
    /\ UNCHANGED screen

\* Rollback: a destroy-blue failure is only reported; otherwise the machines
\* of bg.greenMachines are force-destroyed in order, up to the first failure.
Rollback ==
    /\ RollbackCalled
    /\ pc' = "rolledback"
    /\ IF Contains(deployErr, ErrDestroyBlueMachines)
       THEN /\ rollbackErr' = nil
            /\ UNCHANGED <<faults, fleet, calls>>
       ELSE \E n \in 0..Len(greenMachines) :
            LET reached == {greenMachines[k].id :
                               k \in {j \in 1..Len(greenMachines) : j <= n + 1}}
                destroyed == {greenMachines[k].id : k \in 1..n}
            IN  /\ calls' = calls \cup {<<"Destroy", id>> : id \in reached}
                /\ fleet' = [m \in MachineIds |->
                               IF m \in destroyed
                               THEN [fleet[m] EXCEPT !.exists = FALSE]
                               ELSE fleet[m]]
                /\ IF n < Len(greenMachines)
                   THEN /\ faults < MaxFaults
                        /\ faults' = faults + 1
                        /\ rollbackErr' = NewError(FleetError)
                   ELSE /\ rollbackErr' = nil
                        /\ UNCHANGED faults
    /\ UNCHANGED <<idx, abort, ticker, lists, attempts, tables, tasks, deployErr>>
    /\ UNCHANGED screen

Next ==
    \/ CtrlC
    \/ DeployStart
    \/ DeployPolicy
    \/ SweepBegin
    \/ SweepStep
    \/ SweepEnd
    \/ DeployValidate
    \/ CreateStep
    \/ CreateEnd
    \/ TickerFires
    \/ StartWaitBegin
    \/ \E id \in MachineIds : StartWaiterOk(id)
    \/ \E phase \in {"start", "stop"}, id \in MachineIds : WaiterErr(phase, id)
    \/ StartWaitLoop
    \/ HealthWaitBegin
    \/ \E id \in MachineIds : HealthPoll(id)
    \/ HealthWaitLoop
    \/ MarkReadyStep
    \/ MarkReadyEnd
    \/ GraceBeforeCordon
    \/ CordonStep
    \/ CordonEnd
    \/ GraceBeforeStop
    \/ StopStep
    \/ StopEnd
    \/ StopWaitBegin
    \/ \E id \in MachineIds : StopWaiterOk(id)
    \/ \E id \in MachineIds : StopWaiterCount(id)
    \/ StopWaitLoop
    \/ DestroyStep
    \/ DestroyEnd
    \/ Rollback

Spec == Init /\ [][Next]_vars

(***************************************************************************)
(* The zombie sweep on its own, called twice back to back.  The tags are   *)
(* drawn from a wider set than in Init: two generations, an untagged       *)
(* machine, and a tag that is a number but not the way fmt.Sprint prints   *)
(* it.                                                                     *)
(***************************************************************************)
SweepTagInputs == {<<>>, <<"1">>, <<"2">>, <<"0", "1">>}

SweepInputs(n) ==
    { [k \in 1..n |->
          [id |-> BlueId(k), tag |-> t[k], skipLaunch |-> FALSE,
           skipServiceRegistration |-> FALSE,
           services |-> c[k], checks |-> {}, state |-> "started"]] :
        t \in [1..n -> SweepTagInputs], c \in [1..n -> ServiceCheckInputs] }

SweepInit ==
    \E n \in 0..MaxBlue : \E entries \in SweepInputs(n) : InitFrom(entries, "sweep")

\* DeleteZombiesFromPreviousDeployment is called again on the list the first
\* call left.
SweepAgain ==
    /\ pc = "validate"
    /\ pc' = "resweep"
    /\ idx' = 0
    /\ UNCHANGED <<env, lists, world, tables, tasks, rets>>
    /\ UNCHANGED screen

SweepNext ==
    \/ SweepBegin
    \/ SweepStep
    \/ SweepEnd
    \/ SweepAgain

SweepSpec == SweepInit /\ [][SweepNext]_vars


(***************************************************************************)
(* The status renderers.  The default case of a wait loop sleeps and calls *)
(* render(); the renderer keeps firstRun and previousView between calls.   *)
(* The terminal is seen through what the renderer last wrote and what it   *)
(* last cleared.                                                           *)
(***************************************************************************)
\* changeDetected(a, b): some key of a has another value in b; a key that b
\* lacks reads as the empty string.
changeDetected(a, b) ==
    \E key \in DOMAIN a : a[key] # (IF key \in DOMAIN b THEN b[key] ELSE "")

\* The status text renderMachineHealthchecks prints for one health entry.
HealthStatusText(value) ==
    IF value.Total # 0
    THEN ToString(value.Passing) \o "/" \o ToString(value.Total) \o " passing"
    ELSE "unchecked"

\* currentView as the renderer of the running wait phase builds it from its
\* table.
currentView ==
    CASE pc = "startwait" -> machineIDToState
      [] pc = "stopwait" -> stopIDToState
      [] pc = "healthwait" ->
            [id \in DOMAIN machineIDToHealthStatus |->
                HealthStatusText(machineIDToHealthStatus[id])]

\* The lines fmt.Fprintf("%s\n", strings.Join(rows, "\n")) puts on the
\* terminal: one per row, and one empty line when there is no row.
LinesWritten(rows) == IF rows = 0 THEN 1 ELSE rows

\* The wait loop of the running phase gets to the default case of its select:
\* the phase is not over, no abort, the ticker has not fired and no waiter
\* stands ready to send.
SelectDefault ==
    /\ pc \in {"startwait", "healthwait", "stopwait"}
    /\ idx = 1
    /\ CASE pc = "startwait" -> ~allMachinesStarted(machineIDToState)
         [] pc = "healthwait" -> ~allMachinesHealthy(machineIDToHealthStatus)
         [] pc = "stopwait" -> done # Len(blueMachines)
    /\ ~isAborted
    /\ ~ticker
    /\ \A w \in DOMAIN waiters : waiters[w] # "sending"

\* One call of render() from the default case of a wait loop.
Render ==
    /\ SelectDefault
    /\ LET rows == Cardinality(DOMAIN currentView)
           changed == changeDetected(currentView, previousView)
       IN  /\ lastClear' = IF ~firstRun /\ changed
                           THEN <<rows, lastWrite>>
                           ELSE lastClear
           /\ lastWrite' = IF changed THEN LinesWritten(rows) ELSE lastWrite
           /\ previousView' = IF changed THEN currentView ELSE previousView
           /\ firstRun' = FALSE
    /\ UNCHANGED <<ctl, env, lists, world, tables, tasks, rets>>

\* The states a blue machine was loaded with: the platform's, or none.
StateInputs == {"", "started"}

\* The blue entries as a wait phase finds them: stamped with the deployment's
\* tag, checks attached.
RenderInputs(n) ==
    { attachCustomTopLevelChecks(
        [k \in 1..n |->
          [id |-> BlueId(k), tag |-> timestamp, skipLaunch |-> s[k],
           skipServiceRegistration |-> TRUE,
           services |-> c[k], checks |-> {}, state |-> st[k]]]) :
        s \in [1..n -> BOOLEAN], c \in [1..n -> ServiceCheckInputs],
        st \in [1..n -> StateInputs] }

\* Deploy stands at the head of one of the wait phases given, every phase
\* before it done without a failure.
WaitInit(phases) ==
    \E n \in 1..MaxBlue : \E entries \in RenderInputs(n) :
    \E at \in phases :
        LET greens == [k \in 1..n |-> GreenEntry(entries[k])]
            swapped == at = "stopwait"
        IN  /\ pc = at
            /\ idx = 0
            /\ aborted = FALSE
            /\ abortedAt = "never"
            /\ ticker = FALSE
            /\ faults = 0
            /\ blueMachines = entries
            /\ greenMachines = greens
            /\ localGreens = greens
            /\ zombies = {}
            /\ fleet = [m \in MachineIds |->
                  IF m[2] > n
                  THEN [exists |-> FALSE, cordoned |-> FALSE, state |-> "none",
                        tag |-> <<>>, leased |-> FALSE]
                  ELSE IF m[1] = "blue"
                  THEN [exists |-> TRUE, cordoned |-> swapped,
                        state |-> IF swapped THEN "stopping" ELSE "started",
                        tag |-> <<"1">>, leased |-> FALSE]
                  ELSE [exists |-> TRUE, cordoned |-> ~swapped,
                        state |-> IF at = "startwait" THEN "created" ELSE "started",
                        tag |-> timestamp, leased |-> FALSE]]
            /\ calls = {<<"Launch", GreenId(k)>> : k \in 1..n}
                       \cup (IF swapped
                             THEN {<<"Uncordon", GreenId(k)>> : k \in 1..n}
                                  \cup {<<op, BlueId(k)>> : op \in {"Cordon", "Stop"}, k \in 1..n}
                             ELSE {})
            /\ attempts = EmptyMap
            /\ machineIDToState =
                  IF at = "startwait" THEN EmptyMap
                  ELSE [id \in GreenIds(greens) |-> "started"]
            /\ machineIDToHealthStatus = EmptyMap
            /\ stopIDToState = EmptyMap
            /\ waiters = EmptyMap
            /\ done = 0
            /\ merr = <<>>
            /\ hangingBlueMachines = <<>>
            /\ deployErr = nil
            /\ rollbackErr = nil
            /\ firstRun = TRUE
            /\ previousView = EmptyMap
            /\ lastWrite = -1
            /\ lastClear = <<>>

RenderInit == WaitInit({"startwait", "healthwait", "stopwait"})

RenderNext ==
    \/ StartWaitBegin
    \/ HealthWaitBegin
    \/ StopWaitBegin
    \/ \E id \in MachineIds : StartWaiterOk(id)
    \/ \E id \in MachineIds : HealthPoll(id)
    \/ \E id \in MachineIds : StopWaiterOk(id)
    \/ Render

RenderSpec == RenderInit /\ [][RenderNext]_vars


(***************************************************************************)
(* The stop wait on its own, with no bound on how many of its waiters      *)
(* fail.                                                                   *)
(***************************************************************************)
\* A stop waiter that counts itself before it sends its error (done.Add(1)
\* ahead of the send on errChan).
StopWaiterFails_CountFirst(id) ==
    /\ Waiter("stop", id) \in DOMAIN waiters
    /\ waiters[Waiter("stop", id)] = "waiting"
    /\ waiters' = [waiters EXCEPT ![Waiter("stop", id)] = "sending"]
    /\ done' = done + 1
    /\ UNCHANGED <<ctl, env, lists, world, tables, merr, rets>>
    /\ UNCHANGED screen

\* A stop waiter: WaitForStartOrStop returned an error, which the waiter now
\* sends; it counts itself only after the send went through.
StopWaiterFails(id) ==
    /\ WaiterSends("stop", id)
    /\ UNCHANGED faults

StopWaitInit == WaitInit({"stopwait"})

StopWaitNext ==
    \/ CtrlC
    \/ TickerFires
    \/ StopWaitBegin
    \/ \E id \in MachineIds : StopWaiterOk(id)
    \/ \E id \in MachineIds : StopWaiterFails(id)
    \/ \E id \in MachineIds : StopWaiterCount(id)
    \/ StopWaitLoop

StopWaitSpec == StopWaitInit /\ [][StopWaitNext]_vars


(***************************************************************************)
(* The three wait phases with their goroutines, the ticker and Ctrl+C,     *)
(* with no bound on how many waiters fail.  A run starts at the head of a  *)
(* wait phase and ends where the next sequential phase would begin.        *)
(***************************************************************************)
\* A start waiter: WaitForStartOrStop returned an error, which the waiter now
\* sends.
StartWaiterFails(id) ==
    /\ WaiterSends("start", id)
    /\ UNCHANGED faults

\* A health poller: Get failed or the poller's context is past its deadline;
\* the poller now sends the error.
HealthPollFails(id) ==
    /\ Waiter("health", id) \in DOMAIN waiters
    /\ waiters[Waiter("health", id)] = "waiting"
    /\ calls' = calls \cup {<<"Get", id>>}
    /\ waiters' = [waiters EXCEPT ![Waiter("health", id)] = "sending"]
    /\ UNCHANGED <<ctl, env, lists, fleet, attempts, tables, done, merr, rets>>
    /\ UNCHANGED screen

WaitPhasesInit == WaitInit({"startwait", "healthwait", "stopwait"})

WaitNext ==
    \/ CtrlC
    \/ TickerFires
    \/ StartWaitBegin
    \/ \E id \in MachineIds : StartWaiterOk(id)
    \/ \E id \in MachineIds : StartWaiterFails(id)
    \/ StartWaitLoop
    \/ HealthWaitBegin
    \/ \E id \in MachineIds : HealthPoll(id)
    \/ \E id \in MachineIds : HealthPollFails(id)
    \/ HealthWaitLoop
    \/ StopWaitBegin
    \/ \E id \in MachineIds : StopWaiterOk(id)
    \/ \E id \in MachineIds : StopWaiterFails(id)
    \/ \E id \in MachineIds : StopWaiterCount(id)
    \/ StopWaitLoop

WaitSpec == WaitPhasesInit /\ [][WaitNext]_vars


\* The wait phases with their scheduling: the goroutine of Deploy keeps
\* running (the set-up of a phase and every round of its loop are taken when
\* they can be), and the ticker of a phase fires once bg.timeout has
\* elapsed.  Nothing is assumed of the waiters, which may stay in their Fleet
\* call for ever, nor of Ctrl+C.
WaitFairness ==
    /\ WF_vars(TickerFires)
    /\ WF_vars(StartWaitBegin)
    /\ WF_vars(StartWaitLoop)
    /\ WF_vars(HealthWaitBegin)
    /\ WF_vars(HealthWaitLoop)
    /\ WF_vars(StopWaitBegin)
    /\ WF_vars(StopWaitLoop)

\* The head of a wait phase of a deployment whose blue machines are all
\* recorded as started.
WaitLiveInit ==
    /\ WaitPhasesInit
    /\ \A k \in 1..Len(blueMachines) : blueMachines[k].state = "started"

WaitLiveSpec == WaitLiveInit /\ [][WaitNext]_vars /\ WaitFairness

(***************************************************************************)
(* Properties.                                                             *)
(***************************************************************************)
\* A Fleet operation has been issued to machine m.
Issued(op, m) == <<op, m>> \in calls
\* Some call of a Fleet operation has been issued.
IssuedAny(op) == \E c \in calls : c[1] = op
\* The blue machines the deployment was given.
InitialBlues == {m \in MachineIds : m[1] = "blue" /\ fleet[m].state # "none"}
\* The green machines Launch has created, destroyed since or not.
LaunchedGreens == {m \in MachineIds : m[1] = "green" /\ fleet[m].state # "none"}
\* The machines that exist.
Existing == {m \in MachineIds : fleet[m].exists}
\* Deploy has not returned.
DeployRunning == pc \notin {"returned", "rolledback", "panicked"}
\* The health table holds an all-passing sample for machine id.
Sampled(id) ==
    /\ id \in DOMAIN machineIDToHealthStatus
    /\ machineIDToHealthStatus[id].Total = machineIDToHealthStatus[id].Passing
    /\ machineIDToHealthStatus[id].Total > 0
\* The state table of the start wait records machine id as started.
RecordedStarted(id) ==
    id \in DOMAIN machineIDToState /\ machineIDToState[id] = "started"
\* Machine m is in the proxy's routing table and can serve: it exists, is not
\* cordoned and, for a blue machine, has not stopped.
TakesTraffic(m) ==
    /\ fleet[m].exists
    /\ ~fleet[m].cordoned
    /\ m[1] = "blue" => fleet[m].state # "stopped"
\* Green machine g is uncordoned while blue machine b is uncordoned and running.
Overlap(g, b) ==
    /\ g[1] = "green" /\ fleet[g].exists /\ ~fleet[g].cordoned
    /\ b[1] = "blue" /\ fleet[b].exists /\ ~fleet[b].cordoned
    /\ fleet[b].state = "started"
\* The generation tag of machine m as a number.
TagNumber(m) == Atoi(NormalizedTag(fleet[m].tag)).num

C2_StopAfterUncordon ==
    IssuedAny("Stop") => \A g \in LaunchedGreens : ~fleet[g].cordoned

\* A Stop has been issued in a deployment that launched two green machines.
C2_Witness == IssuedAny("Stop") /\ Cardinality(LaunchedGreens) = 2

\* C3: starting from a non-empty blue list, at every point until Deploy and
\* the Rollback that follows a failed Deploy have returned, some machine
\* takes traffic.
C3_AlwaysServing == InitialBlues # {} => \E m \in MachineIds : TakesTraffic(m)

\* C4, as stated: while Deploy runs, no green machine is uncordoned while a
\* blue machine is still uncordoned and running.
C4_NoOverlap ==
    DeployRunning => ~ \E g, b \in MachineIds : Overlap(g, b)

\* C4, amended: while Deploy runs, a green machine is uncordoned while a blue
\* machine is still uncordoned and running only from the mark-ready phase to
\* the end of the cordon phase, or later for a blue machine whose Cordon call
\* failed.
C4_OverlapOnlyDuringSwap ==
    DeployRunning =>
        \A g, b \in MachineIds :
            Overlap(g, b) =>
                \/ pc \in {"markready", "grace1", "cordon"}
                \/ Issued("Cordon", b)

\* Both generations take traffic during the sleep before the cordon phase.
C4_Witness == pc = "grace1" /\ \E g, b \in MachineIds : Overlap(g, b)

\* C5: whenever Deploy returns nil the fleet is the green machines of this
\* deployment plus, at most, the blue machines of skip_launch entries: every
\* other blue machine is destroyed, also after a failed force-destroy, and no
\* machine left carries a tag older than the deployment's timestamp.
C5_FinalFleet ==
    (pc = "returned" /\ deployErr = nil) =>
        /\ GreenIds(greenMachines) \subseteq Existing
        /\ Existing \subseteq
               GreenIds(greenMachines) \cup
               {blueMachines[k].id : k \in {j \in 1..Len(blueMachines) :
                                               blueMachines[j].skipLaunch}}
        /\ \A m \in Existing : TagNumber(m) >= Atoi(timestamp).num

\* C6: if Deploy returned an error that is not a destroy-blue failure and
\* Rollback returned nil, no green machine this deployment launched exists.
C6_RollbackLeavesNoGreen ==
    (/\ pc = "rolledback"
     /\ ~Contains(deployErr, ErrDestroyBlueMachines)
     /\ rollbackErr = nil)
        => \A g \in LaunchedGreens : ~fleet[g].exists

\* C7: an abort signaled before the create phase starts leaves no green
\* machine launched.
C7_AbortBeforeCreate ==
    abortedAt \in {"start", "policy", "sweep", "validate"} => LaunchedGreens = {}

C9_SweepKeepsNewest ==
    (/\ pc = "validate"
     /\ Cardinality({NormalizedTag(fleet[b].tag) : b \in InitialBlues}) >= 2)
        => LET newest == CHOOSE n \in {TagNumber(b) : b \in InitialBlues} :
                             \A b \in InitialBlues : TagNumber(b) <= n
           IN  /\ {blueMachines[k].id : k \in 1..Len(blueMachines)}
                      = {b \in InitialBlues : TagNumber(b) = newest}
               /\ \A b \in InitialBlues : TagNumber(b) # newest => ~fleet[b].exists

\* C10: Deploy with an empty blue list, permitted and not aborted, runs to
\* completion and returns nil without a Fleet call.
C10_EmptyBlueCompletes ==
    InitialBlues = {} =>
        /\ pc # "panicked"
        /\ calls = {}
        /\ (/\ pc = "returned"
            /\ abortedAt = "never"
            /\ deployErr \notin {NewError(ErrOrgLimit), NewError(FleetError)})
               => deployErr = nil

\* C11: a sweep called right after a sweep that returned nil destroys no
\* machine (no Destroy attempt, no call, no change of the fleet) and leaves
\* the blue list as it is.
C11_SweepIdempotent ==
    [][pc = "resweep" =>
          /\ blueMachines' = blueMachines
          /\ attempts' = attempts
          /\ calls' = calls
          /\ fleet' = fleet]_vars

\* A second sweep has returned nil after a first sweep that destroyed a
\* machine.
C11_Witness ==
    /\ pc = "reswept"
    /\ \E m \in MachineIds : Issued("Destroy", m) /\ ~fleet[m].exists

\* C12: when the force-destroy of a blue machine failed in the destroy phase,
\* Deploy returns an error that wraps ErrDestroyBlueMachines.
C12_DestroyFailureReturned ==
    (pc = "returned" /\ hangingBlueMachines # <<>>) =>
        Contains(deployErr, ErrDestroyBlueMachines)

\* Some blue machine is not recorded as stopped by the stop wait.
SomeBlueNotStopped ==
    \E id \in DOMAIN stopIDToState : stopIDToState[id] # "stopped"
\* Destroy has been issued to every machine of the blue list.
DestroyPhaseRan ==
    \A k \in 1..Len(blueMachines) : Issued("Destroy", blueMachines[k].id)

WaitTimedOut ==
    /\ ticker
    /\ ~aborted
    /\ idx = 1
    /\ \/ /\ pc = "startwait"
          /\ \E id \in DOMAIN machineIDToState : machineIDToState[id] # "started"
       \/ /\ pc = "healthwait"
          /\ \E id \in DOMAIN machineIDToHealthStatus : ~Sampled(id)
\* The sentinel Deploy wraps the error of the current wait phase in.
WaitSentinel == IF pc = "startwait" THEN ErrWaitForStartedState ELSE ErrWaitForHealthy
\* A waiter of the current wait phase is blocked sending its error.
WaiterErrorPending == Sending(IF pc = "startwait" THEN "start" ELSE "health") # {}

\* C14, as stated (for runs without abort): once the timeout has elapsed with
\* a tracked machine short of its target, the phase ends with ErrWaitTimeout,
\* whatever the waiters report.
C14_TimeoutWins ==
    [][(WaitTimedOut /\ pc' # pc) =>
           /\ pc' = "returned"
           /\ deployErr' = Wrap(NewError(ErrWaitTimeout), WaitSentinel)]_vars

\* C14, amended: once the timeout has elapsed with a tracked machine short of
\* its target, the phase ends with ErrWaitTimeout however many machines have
\* succeeded, or, when a waiter is sending an error at that moment, with
\* either ErrWaitTimeout or that waiter's error.
C14_TimeoutOrPendingError ==
    [][(WaitTimedOut /\ pc' # pc) =>
           /\ pc' = "returned"
           /\ \/ deployErr' = Wrap(NewError(ErrWaitTimeout), WaitSentinel)
              \/ /\ WaiterErrorPending
                 /\ deployErr' = Wrap(NewError(FleetError), WaitSentinel)]_vars

\* The start wait timed out with one waited machine started and another not.
C14_Witness ==
    /\ pc = "returned"
    /\ deployErr = Wrap(NewError(ErrWaitTimeout), ErrWaitForStartedState)
    /\ \E a, b \in StartWaited(greenMachines) :
          machineIDToState[a] = "started" /\ machineIDToState[b] = "created"

\* C15: when Deploy returns an error out of the create, start-wait,
\* health-wait or mark-ready phase, no Cordon, Stop or Destroy has been issued
\* to a machine of the blue list, and a failed health wait is returned
\* wrapped in ErrWaitForHealthy.
C15_EarlyFailureLeavesBlue ==
    [][(pc \in {"create", "startwait", "healthwait", "markready"} /\ pc' = "returned") =>
           /\ \A k \in 1..Len(blueMachines') :
                 /\ <<"Cordon", blueMachines'[k].id>> \notin calls'
                 /\ <<"Stop", blueMachines'[k].id>> \notin calls'
                 /\ <<"Destroy", blueMachines'[k].id>> \notin calls'
           /\ (/\ pc = "healthwait"
               /\ \E id \in DOMAIN machineIDToHealthStatus : ~Sampled(id))
                  => Contains(deployErr', ErrWaitForHealthy)]_vars

\* The health wait timed out on a deployment with two blue machines.
C15_Witness ==
    /\ pc = "returned"
    /\ deployErr = Wrap(NewError(ErrWaitTimeout), ErrWaitForHealthy)
    /\ Len(blueMachines) = 2

\* C16: when the policy check answers false, Deploy has returned ErrOrgLimit
\* and no Fleet call has been issued.
C16_OrgLimitTouchesNothing ==
    deployErr = NewError(ErrOrgLimit) =>
        /\ pc \in {"returned", "rolledback"}
        /\ calls = {}
        /\ DOMAIN waiters = {}
        /\ \A m \in InitialBlues : fleet[m].exists /\ ~fleet[m].cordoned

\* Deploy returned ErrOrgLimit for a blue list of two generations, which the
\* sweep would have touched.
C16_Witness ==
    /\ pc = "returned"
    /\ deployErr = NewError(ErrOrgLimit)
    /\ \E a, b \in InitialBlues : fleet[a].tag # fleet[b].tag

\* Entry k of the blue list has no top-level check and no service check to
\* propagate: its launch spec has zero checks after check propagation.
ZeroChecks(k) == blueMachines[k].checks = {} /\ blueMachines[k].services = {}
\* Deploy leaves check propagation and validation.
ValidationDone == pc = "validate" /\ pc' # pc

\* C17: with a non-empty blue list whose entries all have zero checks after
\* propagation, Deploy returns ErrValidationError and no green machine is
\* launched.
C17_NoChecksAtAll ==
    [][(/\ ValidationDone
        /\ blueMachines # <<>>
        /\ \A k \in 1..Len(blueMachines) : ZeroChecks(k)) =>
           /\ pc' = "returned"
           /\ deployErr' = NewError(ErrValidationError)
           /\ calls' = calls
           /\ LaunchedGreens' = {}]_vars

\* Deploy returned ErrValidationError for two entries without checks.
C17_Witness ==
    /\ pc = "returned"
    /\ deployErr = NewError(ErrValidationError)
    /\ Len(blueMachines) = 2

\* C18, as stated: with a non-empty blue list in which some entry has zero
\* checks after propagation, Deploy returns ErrValidationError and creates no
\* machine, whatever the other entries have.
C18_AnyEntryWithoutChecks ==
    [][(/\ ValidationDone
        /\ \E k \in 1..Len(blueMachines) : ZeroChecks(k)) =>
           /\ pc' = "returned"
           /\ deployErr' = NewError(ErrValidationError)]_vars

\* C18, amended: Deploy returns ErrValidationError exactly when the blue list
\* is non-empty and every entry has zero checks after propagation; when some
\* entry has a check, validation passes and the create phase starts, entries
\* without checks included.
C18_OnlyAllWithoutChecks ==
    [][ValidationDone =>
           IF blueMachines # <<>> /\ \A k \in 1..Len(blueMachines) : ZeroChecks(k)
           THEN pc' = "returned" /\ deployErr' = NewError(ErrValidationError)
           ELSE pc' = "create" /\ deployErr' = nil]_vars

\* A green machine was launched for an entry without checks next to an entry
\* with a check.
C18_Witness ==
    \E j, k \in 1..Len(localGreens) :
        /\ localGreens[j].checks = {}
        /\ localGreens[k].checks # {}
        /\ fleet[localGreens[j].id].exists

\* The run so far is one in which the blue entries carry one tag and a check
\* each, the policy check permitted, no Fleet call or waiter failed, no wait
\* timed out and no abort was signaled.
HappyRun ==
    /\ InitialBlues # {}
    /\ Cardinality({fleet[b].tag : b \in InitialBlues}) = 1
    /\ \A k \in 1..Len(blueMachines) : blueMachines[k].services # {}
    /\ faults = 0
    /\ abortedAt = "never"
    /\ deployErr # NewError(ErrOrgLimit)
    /\ ~Contains(deployErr, ErrWaitTimeout)
\* The ids of the blue list.
BlueIds == {blueMachines[k].id : k \in 1..Len(blueMachines)}

\* C19: in such a run the phases come in order (every Launch before the
\* first Uncordon, every Uncordon before the first Cordon, every Cordon before
\* the first Stop, every Stop before the first Destroy) and Deploy returns
\* nil with one green machine launched and uncordoned per blue entry and every
\* blue machine cordoned, stopped and destroyed.
C19_HappyPath ==
    HappyRun =>
        /\ IssuedAny("Uncordon") => \A b \in BlueIds : Issued("Launch", GreenId(b[2]))
        /\ IssuedAny("Cordon") =>
              \A b \in BlueIds : Issued("Uncordon", GreenId(b[2]))
                                  /\ ~fleet[GreenId(b[2])].cordoned
        /\ IssuedAny("Stop") => \A b \in BlueIds : Issued("Cordon", b)
        /\ IssuedAny("Destroy") => \A b \in BlueIds : Issued("Stop", b)
        /\ pc \in {"returned", "rolledback"} =>
              /\ pc = "returned"
              /\ deployErr = nil
              /\ BlueIds = InitialBlues
              /\ LaunchedGreens = {GreenId(b[2]) : b \in BlueIds}
              /\ GreenIds(greenMachines) = LaunchedGreens
              /\ \A g \in LaunchedGreens :
                    Issued("Uncordon", g) /\ fleet[g].exists /\ ~fleet[g].cordoned
              /\ \A b \in BlueIds :
                    /\ Issued("Cordon", b) /\ Issued("Stop", b) /\ Issued("Destroy", b)
                    /\ ~fleet[b].exists

\* Deploy returned nil at the end of such a run with two blue machines.
C19_Witness ==
    /\ HappyRun
    /\ pc = "returned"
    /\ deployErr = nil
    /\ Len(blueMachines) = 2

\* The phases Deploy reaches only after the start wait returned nil.
PastStartWait ==
    {"healthwait", "markready", "grace1", "cordon", "grace2", "stop", "stopwait",
     "destroy"}

\* C20: a green machine with zero checks has no entry in the health table
\* and no health poller, and a health wait whose table is empty succeeds at
\* its first look; the same machine, unless skip_launch, has a start waiter
\* and an entry in the state table during the start wait and is recorded as
\* started in every phase after it.
C20_ZeroChecksExempt ==
    /\ \A k \in 1..Len(greenMachines) :
          greenMachines[k].checks = {} =>
              LET g == greenMachines[k].id
              IN  /\ g \notin DOMAIN machineIDToHealthStatus
                  /\ Waiter("health", g) \notin DOMAIN waiters
                  /\ ~greenMachines[k].skipLaunch =>
                        /\ (pc = "startwait" /\ idx = 1) =>
                              /\ g \in DOMAIN machineIDToState
                              /\ Waiter("start", g) \in DOMAIN waiters
                        /\ pc \in PastStartWait => RecordedStarted(g)
    /\ (pc = "healthwait" /\ idx = 1 /\ DOMAIN machineIDToHealthStatus = {}) =>
          allMachinesHealthy(machineIDToHealthStatus)

\* The health wait has succeeded for a deployment with a polled green machine
\* and a green machine that has no checks and was waited for by the start
\* wait.
C20_Witness ==
    /\ pc = "markready"
    /\ HealthWaited(greenMachines) # {}
    /\ \E k \in 1..Len(greenMachines) :
          /\ greenMachines[k].checks = {}
          /\ ~greenMachines[k].skipLaunch
          /\ RecordedStarted(greenMachines[k].id)

\* C21: a Rollback called with an error whose chain contains the destroy-blue
\* sentinel returns nil and issues no Fleet call: the set of calls and every
\* machine of the fleet, green or blue, are as they were before the call.
C21_RollbackAfterDestroyFailure ==
    [][(pc = "returned" /\ Contains(deployErr, ErrDestroyBlueMachines)
            /\ pc' = "rolledback")
        => (rollbackErr' = nil /\ calls' = calls /\ fleet' = fleet)]_vars

\* Rollback has returned after a Deploy that failed in the destroy phase with
\* green machines launched.
C21_Witness ==
    /\ pc = "rolledback"
    /\ Contains(deployErr, ErrDestroyBlueMachines)
    /\ greenMachines # <<>>
    /\ rollbackErr = nil

\* C22: every clearLinesAbove(N) of a status renderer comes after a write of
\* that renderer, and N is no greater than the number of lines of its most
\* recent write.
C22_ClearWithinLastWrite ==
    lastClear # <<>> => (lastClear[2] >= 0 /\ lastClear[1] <= lastClear[2])

\* C23: every Launch of the create phase carries skip_service_registration
\* and the deployment's timestamp as generation tag: every green machine that
\* has been launched carries the timestamp, is out of the routing table until
\* an Uncordon is issued to it, and the launch spec of every entry the create
\* phase has passed is suppressed and stamped.
C23_LaunchSuppressedAndTagged ==
    /\ \A g \in LaunchedGreens :
          /\ fleet[g].tag = timestamp
          /\ (fleet[g].exists /\ ~Issued("Uncordon", g)) => fleet[g].cordoned
    /\ \A k \in 1..Len(blueMachines) :
          Issued("Launch", GreenId(blueMachines[k].id[2])) =>
              /\ blueMachines[k].skipServiceRegistration
              /\ blueMachines[k].tag = timestamp

\* The create phase has launched two green machines from blue entries with
\* different tags, and no Uncordon has been issued.
C23_Witness ==
    /\ Cardinality(LaunchedGreens) = 2
    /\ ~IssuedAny("Uncordon")
    /\ \E b \in InitialBlues : fleet[b].tag # timestamp

\* The green machines of the first n blue entries.
GreensOfFirst(n) == {GreenId(blueMachines[k].id[2]) : k \in 1..n}

\* C24: when Deploy has returned an error wrapping ErrCreateGreenMachine, the
\* create phase had launched the blue entries in list order up to the first
\* Launch error and issued no Launch after it, and the green list holds
\* exactly the machines launched before the error.
C24_CreateFailureKeepsLaunched ==
    (pc = "returned" /\ Contains(deployErr, ErrCreateGreenMachine)) =>
        /\ \E n \in 0..(Len(blueMachines) - 1) :
              /\ LaunchedGreens = GreensOfFirst(n)
              /\ \A g \in MachineIds : Issued("Launch", g) <=> g \in GreensOfFirst(n + 1)
        /\ GreenIds(greenMachines) = LaunchedGreens

\* C25: while Deploy runs, every green machine the create phase has launched
\* holds the lease it was launched with.
C25_LeaseHeldUntilReturn ==
    DeployRunning => \A g \in LaunchedGreens : fleet[g].leased

\* C26: the cordon phase and the stop phase issue their call to the blue
\* machines in list order, one per round whatever the earlier calls returned
\* (inside a phase the call has been issued to exactly the entries before the
\* loop position; after it, to every entry), and neither phase fails the
\* deployment except on an abort: an error that wraps ErrCordonBlueMachines or
\* ErrStopBlueMachines is the abort error.
C26_CordonStopBestEffort ==
    /\ \A k \in 1..Len(blueMachines) :
          /\ pc = "cordon" => (Issued("Cordon", blueMachines[k].id) <=> k < idx)
          /\ pc = "stop" => (Issued("Stop", blueMachines[k].id) <=> k < idx)
          /\ pc \in {"grace2", "stop", "stopwait", "destroy"} =>
                Issued("Cordon", blueMachines[k].id)
          /\ pc \in {"stopwait", "destroy"} => Issued("Stop", blueMachines[k].id)
    /\ (Contains(deployErr, ErrCordonBlueMachines)
            \/ Contains(deployErr, ErrStopBlueMachines)) =>
          Contains(deployErr, ErrAborted)

\* Deploy destroys the blue machines after a Cordon or a Stop failed on the
\* first of two blue machines, with no abort.
C26_Witness ==
    /\ pc = "destroy"
    /\ ~aborted
    /\ Len(blueMachines) = 2
    /\ faults > 0
    /\ \/ ~fleet[blueMachines[1].id].cordoned
       \/ fleet[blueMachines[1].id].state = "started"
    /\ Issued("Cordon", blueMachines[2].id)
    /\ Issued("Stop", blueMachines[2].id)

\* The ids of those among the first n blue entries whose machine still
\* exists, in list order.
StillExisting(n) ==
    LET left == SelectSeq(SubSeq(blueMachines, 1, n), LAMBDA gm : fleet[gm.id].exists)
    IN  [i \in 1..Len(left) |-> left[i].id]

\* C27: the destroy phase issues one force-destroy to every blue machine, in
\* list order and also after a failure (inside the phase every entry before
\* the loop position has had exactly one attempt and the others none; when
\* Deploy has returned nil every entry has had exactly one), and the hanging
\* list is the ids of the entries whose destroy failed, once each, in list
\* order.
C27_DestroyEveryBlueOnce ==
    /\ pc = "destroy" =>
          /\ \A k \in 1..Len(blueMachines) :
                Attempts(blueMachines[k].id) = IF k < idx THEN 1 ELSE 0
          /\ hangingBlueMachines = StillExisting(idx - 1)
    /\ (pc = "returned" /\ deployErr = nil) =>
          /\ \A k \in 1..Len(blueMachines) : Attempts(blueMachines[k].id) = 1
          /\ hangingBlueMachines = StillExisting(Len(blueMachines))

\* The destroy phase has finished over two blue machines, the destroy of the
\* first having failed.
C27_Witness ==
    /\ pc = "returned"
    /\ deployErr = nil
    /\ Len(blueMachines) = 2
    /\ hangingBlueMachines = <<blueMachines[1].id>>
    /\ ~fleet[blueMachines[2].id].exists

\* The number of times id occurs in the errors the stop wait accumulated.
Accumulated(id) == Cardinality({i \in 1..Len(merr) : merr[i] = id})

\* C28: when the stop wait has returned because its completion counter reached
\* the number of blue machines, the aggregate holds exactly one error for
\* every waiter that failed and none for a waiter that recorded its machine
\* as stopped, so it is nil exactly when no waiter failed.
C28_AggregateExact ==
    pc = "destroy" =>
        /\ done = Len(blueMachines)
        /\ \A id \in DOMAIN stopIDToState :
              Accumulated(id) = IF stopIDToState[id] = "stopped" THEN 0 ELSE 1
        /\ Len(merr) = Cardinality({id \in DOMAIN stopIDToState :
                                       stopIDToState[id] # "stopped"})

\* The stop wait has returned by its counter after both of its two waiters
\* failed.
C28_Witness ==
    /\ pc = "destroy"
    /\ Len(blueMachines) = 2
    /\ Len(merr) = 2

\* Deploy has returned the error of a zombie's force-destroy: the only bare
\* Fleet error Deploy returns after a Destroy was issued.
SweepFailed ==
    /\ pc \in {"returned", "rolledback"}
    /\ deployErr = NewError(FleetError)
    /\ IssuedAny("Destroy")

\* C29: no machine gets more than 3 force-destroy attempts; the sweep moves
\* past a zombie only when its destroy succeeded; and when the attempts on a
\* zombie have all failed Deploy returns that error with no entry after the
\* zombie attempted, the blue list unfiltered and no green machine launched.
C29_SweepFailureIsFatal ==
    /\ \A m \in MachineIds : Attempts(m) <= RetryAttempts
    /\ (InSweep /\ idx >= 1) =>
          \A k \in 1..Len(blueMachines) :
              (k < idx /\ blueMachines[k].tag \in zombies) =>
                  ~fleet[blueMachines[k].id].exists
    /\ SweepFailed =>
          /\ \E k \in 1..Len(blueMachines) :
                /\ blueMachines[k].tag \in zombies
                /\ Attempts(blueMachines[k].id) = RetryAttempts
                /\ fleet[blueMachines[k].id].exists
                /\ \A j \in 1..Len(blueMachines) :
                      j > k => Attempts(blueMachines[j].id) = 0
          /\ BlueIds = InitialBlues
          /\ Len(blueMachines) = Cardinality(InitialBlues)
          /\ ~IssuedAny("Launch")
          /\ LaunchedGreens = {}

\* Deploy returned after three failed attempts on a zombie that stands first
\* in a list of two.
C29_Witness ==
    /\ SweepFailed
    /\ Len(blueMachines) = 2
    /\ Attempts(blueMachines[1].id) = RetryAttempts
    /\ fleet[blueMachines[1].id].exists

\* C30: when the sweep has returned nil on a non-empty blue list whose tags
\* all parse as integers, every entry that left the list had its machine
\* destroyed, the entries that stayed are in their original order and carry
\* one and the same tag, and at least one entry stayed.
C30_SweepLeavesOneGeneration ==
    (pc = "validate" /\ InitialBlues # {}
        /\ \A b \in InitialBlues : Atoi(NormalizedTag(fleet[b].tag)).ok) =>
        /\ \A b \in InitialBlues \ BlueIds : ~fleet[b].exists
        /\ \A i, j \in 1..Len(blueMachines) :
              i < j => blueMachines[i].id[2] < blueMachines[j].id[2]
        /\ Cardinality({blueMachines[k].tag : k \in 1..Len(blueMachines)}) = 1
        /\ blueMachines # <<>>

\* The phases that walk a machine list one machine at a time.
SequentialPhases == {"sweep", "create", "markready", "cordon", "stop", "destroy"}

\* The list the running sequential phase walks.
PhaseList == IF pc = "markready" THEN greenMachines ELSE blueMachines

\* C31: once abort has been signaled while a sequential phase runs, the next
\* round of that phase's loop issues no Fleet call and makes Deploy return an
\* error that carries ErrAborted.
C31_AbortStopsSequentialPhase ==
    [][(/\ aborted
        /\ abortedAt = pc
        /\ pc \in SequentialPhases
        /\ idx \in 1..Len(PhaseList))
        => (/\ calls' = calls
            /\ pc' = "returned"
            /\ Contains(deployErr', ErrAborted))]_vars

\* C32: when abort was signaled while the destroy phase was iterating and
\* Deploy returned an error, the error carries the destroy-blue sentinel, and
\* the Rollback that follows returns nil with every green machine of the
\* deployment still there and no Destroy issued to any of them.
C32_AbortInDestroyKeepsGreens ==
    (abortedAt = "destroy" /\ pc \in {"returned", "rolledback"} /\ deployErr # nil) =>
        /\ Contains(deployErr, ErrDestroyBlueMachines)
        /\ Contains(deployErr, ErrAborted)
        /\ \A g \in LaunchedGreens : fleet[g].exists /\ ~Issued("Destroy", g)
        /\ pc = "rolledback" => rollbackErr = nil

\* Rollback has returned after an abort that came between the destroy of the
\* first and of the second blue machine.
C32_Witness ==
    /\ pc = "rolledback"
    /\ abortedAt = "destroy"
    /\ Len(blueMachines) = 2
    /\ ~fleet[blueMachines[1].id].exists
    /\ fleet[blueMachines[2].id].exists
    /\ Cardinality(LaunchedGreens) = 2

\* The position of Deploy while the foreground loop of a wait phase runs.
WaitPc(phase) ==
    CASE phase = "start" -> "startwait"
      [] phase = "health" -> "healthwait"
      [] phase = "stop" -> "stopwait"

\* The waiters blocked on their send although the loop that would receive
\* has returned.
Leaked == {w \in DOMAIN waiters : waiters[w] = "sending" /\ pc # WaitPc(w[1])}

\* C33: a per-machine waiter that reaches its send on the phase's error
\* channel after the foreground loop has returned (on the first error, on
\* timeout or on abort) is blocked there in every later state: it never
\* terminates.
C33_BlockedSenderNeverTerminates ==
    [][\A w \in Leaked : w \in DOMAIN waiters' /\ waiters'[w] = "sending"]_vars

\* Two start waiters failed: the loop received the first error and returned
\* it, the second waiter is blocked on its send.
C33_Witness ==
    /\ pc = "returned"
    /\ ~aborted
    /\ Contains(deployErr, FleetError)
    /\ Contains(deployErr, ErrWaitForStartedState)
    /\ \E w \in Leaked : w[1] = "start"
    /\ \E w \in DOMAIN waiters : w[1] = "start" /\ waiters[w] = "done"
                                 /\ machineIDToState[w[2]] # "started"

\* The positions of Deploy after WaitForGreenMachinesToBeHealthy returned nil.
PastHealthWait == PastStartWait \ {"healthwait"}

\* The tasks a wait phase spawned.
Tasks(phase) == {w \in DOMAIN waiters : w[1] = phase}

\* C34: on the success path a wait phase is a barrier.  After the start wait
\* returned nil every start waiter has written "started" and ended; after the
\* health wait returned nil every poller has written its all-passing sample
\* and ended; after the stop wait returned through its counter every stop
\* waiter has ended.  None is running or blocked on a send when the next
\* phase starts.
C34_PhasesAreBarriers ==
    /\ pc \in PastStartWait =>
          \A w \in Tasks("start") :
             waiters[w] = "done" /\ machineIDToState[w[2]] = "started"
    /\ pc \in PastHealthWait =>
          \A w \in Tasks("health") :
             /\ waiters[w] = "done"
             /\ machineIDToHealthStatus[w[2]].Total # 0
             /\ machineIDToHealthStatus[w[2]].Passing = machineIDToHealthStatus[w[2]].Total
    /\ pc = "destroy" =>
          /\ Tasks("stop") = {Waiter("stop", id) : id \in BlueIds}
          /\ \A w \in Tasks("stop") : waiters[w] = "done"

\* The destroy phase begins with the tasks of all three wait phases ended,
\* one of the stop waiters having reported an error.
C34_Witness ==
    /\ pc = "destroy"
    /\ Cardinality(Tasks("start")) = 2
    /\ Cardinality(Tasks("health")) = 2
    /\ Cardinality(Tasks("stop")) = 2
    /\ merr # <<>>

\* A health entry that has reached passing == total > 0.
Healthy(status) == status.Total # 0 /\ status.Passing = status.Total

\* A state table keeps its keys and its entries that have reached target.
StateProgress(old, new, target) ==
    /\ DOMAIN new = DOMAIN old
    /\ \A id \in DOMAIN old : old[id] = target => new[id] = target

\* C35: the status tables only progress.  In every step other than the one
\* that initializes the table, the key set stays, a "started" (or "stopped")
\* entry stays, a health entry with passing == total > 0 stays as it is, and
\* so allMachinesStarted and allMachinesHealthy, once true, stay true.
C35_TablesOnlyProgress ==
    [][/\ ~(pc = "startwait" /\ idx = 0) =>
             /\ StateProgress(machineIDToState, machineIDToState', "started")
             /\ allMachinesStarted(machineIDToState) =>
                   allMachinesStarted(machineIDToState')
       /\ ~(pc = "healthwait" /\ idx = 0) =>
             /\ DOMAIN machineIDToHealthStatus' = DOMAIN machineIDToHealthStatus
             /\ \A id \in DOMAIN machineIDToHealthStatus :
                   Healthy(machineIDToHealthStatus[id]) =>
                      machineIDToHealthStatus'[id] = machineIDToHealthStatus[id]
             /\ allMachinesHealthy(machineIDToHealthStatus) =>
                   allMachinesHealthy(machineIDToHealthStatus')
       /\ ~(pc = "stopwait" /\ idx = 0) =>
             StateProgress(stopIDToState, stopIDToState', "stopped")]_vars

\* In the health wait, after a start wait with two waiters: one poller has
\* ended on an all-passing sample, the other has written a failing one and
\* polls on.
C35_Witness ==
    /\ pc = "healthwait"
    /\ idx = 1
    /\ Cardinality(Tasks("start")) = 2
    /\ allMachinesStarted(machineIDToState)
    /\ \E a, b \in DOMAIN machineIDToHealthStatus :
          /\ Healthy(machineIDToHealthStatus[a])
          /\ waiters[Waiter("health", a)] = "done"
          /\ machineIDToHealthStatus[b].Total # 0
          /\ ~Healthy(machineIDToHealthStatus[b])
          /\ waiters[Waiter("health", b)] = "waiting"

WaitPcs == {"startwait", "healthwait", "stopwait"}

\* The waiters of the running wait phase that stand ready to send.
ReportPending ==
    \E phase \in {"start", "health", "stop"} : pc = WaitPc(phase) /\ Sending(phase) # {}

\* A round of the foreground loop of a wait phase, other than the default
\* case of its select.
LoopRound == StartWaitLoop \/ HealthWaitLoop \/ StopWaitLoop

\* C36: every wait phase eventually returns, whatever its waiters do, even
\* if none ever completes or reports; and once its ticker has fired or abort
\* is signaled, with no waiter report pending, the next round of its loop
\* returns.
C36_WaitPhasesReturn ==
    /\ \A p \in WaitPcs : (pc = p) ~> (pc # p)
    /\ [][(LoopRound /\ (ticker \/ aborted) /\ ~ReportPending) => pc' # pc]_vars

\* The stop wait has returned ErrWaitTimeout with both of its waiters still
\* in their Fleet call.
C36_Witness ==
    /\ pc = "returned"
    /\ ~aborted
    /\ Contains(deployErr, ErrWaitTimeout)
    /\ Contains(deployErr, ErrWaitForStoppedState)
    /\ Cardinality(Tasks("stop")) = 2
    /\ \A w \in Tasks("stop") : waiters[w] = "waiting"

====
